---- MODULE Spec2Model ----
(***************************************************************************)
(* Crop yield prediction platform: the confidence / interval estimators of *)
(* the two predictors (src/src/api/predict.py with src/src/utils.py, and   *)
(* src/backend/ml_utils.py), the FeatureEngineer (src/src/features.py) as  *)
(* fed by PredictionService, and the AdvisoryEngine (src/src/api/          *)
(* advisory.py).                                                           *)
(*                                                                         *)
(* Numbers are fixed point.  Yields are integers in milli-t/ha, reported   *)
(* (rounded) yields in centi-t/ha, the simple path's confidence in         *)
(* thousandths, the data-quality score in thirtieths (every penalty of     *)
(* assess_data_quality is a multiple of 1/30), and the full path's         *)
(* confidence an exact fraction [n, d] until it is rounded.                *)
(***************************************************************************)
EXTENDS Integers, Sequences, FiniteSets, TLC

VARIABLES
    result,             \* the last value returned by a predictor, or by the
                        \* simple backend's POST /predict handler
    scalers,            \* FeatureEngineer.scalers
    encoders,           \* FeatureEngineer.encoders
    feature_names,      \* FeatureEngineer.feature_names
    selected_features,  \* FeatureEngineer.selected_features
    transformed,        \* the last frame returned by prepare_features
    advisory,           \* the last value returned by generate_advisory
    predictor,          \* the CropYieldPredictor: model, is_fitted, ...
    service,            \* the PredictionService: model, feature_engineer
    api                 \* src/src/api/main.py: the /predict handlers in
                        \* progress, the background tasks, the database rows,
                        \* the last /predict/batch response

vars == <<result, scalers, encoders, feature_names, selected_features,
          transformed, advisory, predictor, service, api>>

confVars == <<result>>
feVars == <<scalers, encoders, feature_names, selected_features, transformed>>
advVars == <<advisory>>
svcVars == <<predictor, service>>
apiVars == <<api>>

----------------------------------------------------------------------------
(* Arithmetic helpers *)

Max(a, b) == IF a >= b THEN a ELSE b
Min(a, b) == IF a <= b THEN a ELSE b

\* round(x, ndigits) of Python 3 (round half to even), for x given in units
\* of 1/u of the target digit.
RoundHalfEven(x, u) ==
    LET q == x \div u
        r == x % u
    IN  IF 2 * r < u THEN q
        ELSE IF 2 * r > u THEN q + 1
        ELSE IF q % 2 = 0 THEN q ELSE q + 1

\* Exact fractions n/d with d > 0.
Frac(n, d) == [n |-> n, d |-> d]
FracLess(a, b) == a.n * b.d < b.n * a.d
FracLeq(a, b) == a.n * b.d <= b.n * a.d
FracMax(a, b) == IF FracLess(a, b) THEN b ELSE a
FracMin(a, b) == IF FracLess(b, a) THEN b ELSE a

\* No call in progress, nothing returned yet.
NoResult == [path |-> "none"]
NoFrame == [state |-> "none"]
NoAdvisory == [state |-> "none"]
\* self.model = None
NoModel == [bound |-> FALSE]

----------------------------------------------------------------------------
(* Bounds of the model *)

\* Largest whole yield (t/ha) a bound model returns.
MaxYield == 16

----------------------------------------------------------------------------
(* External data: the maps returned by DataFetcher.process_weather_data    *)
(* and process_soil_data, as the sequence of their keys in insertion order *)

WeatherAggregates ==
    <<"precip_sum", "precip_mean", "temp_mean", "temp_max", "temp_min",
      "humidity_mean", "solar_mean">>

\* process_weather_data returns {} or the seven aggregates, plus gdd when the
\* response carries T2M.
WeatherMaps == {<<>>, WeatherAggregates, Append(WeatherAggregates, "gdd")}

SoilOrder ==
    <<"soil_phh2o", "soil_soc", "soil_clay", "soil_sand", "soil_silt",
      "soil_cec", "soil_nitrogen">>

Range(s) == {s[i] : i \in 1..Len(s)}

IsIn(k, S) == k \in S

Restrict(s, S) == SelectSeq(s, LAMBDA k : IsIn(k, S))

\* process_soil_data returns one soil_<name> entry per layer of the response
\* that has depth values: any subset of the properties.
SoilVarying == {"soil_phh2o", "soil_soc", "soil_clay", "soil_cec"}
SoilMaps ==
    {Restrict(SoilOrder, S) : S \in SUBSET SoilVarying}
        \cup {SoilOrder}

WeatherKeyParams == <<"precip_sum", "temp_mean", "gdd">>
SoilKeyParams == <<"soil_phh2o", "soil_soc", "soil_clay">>

MissingParams(key_params, data) ==
    Cardinality({i \in 1..Len(key_params) : key_params[i] \notin Range(data)})

\* assess_data_quality with the whole-family weather penalty at 0.2, the
\* penalty of three missing key parameters.
AssessDataQualityWeatherPenalty02(external_data) ==
    LET weather_data == external_data.weather
        soil_data == external_data.soil
        after_weather ==
            IF weather_data = <<>>
            THEN 30 - 6
            ELSE 30 - 2 * MissingParams(WeatherKeyParams, weather_data)
        after_soil ==
            IF soil_data = <<>>
            THEN after_weather - 6
            ELSE after_weather - MissingParams(SoilKeyParams, soil_data)
    IN  Max(3, after_soil)

\* PredictionService.assess_data_quality, in thirtieths: 1.0 = 30, the
\* whole-family penalties 0.3 = 9 and 0.2 = 6, (missing / 3) * 0.2 = 2 * missing
\* and (missing / 3) * 0.1 = missing; floored at 0.1 = 3.
AssessDataQuality(external_data) ==
    LET weather_data == external_data.weather
        soil_data == external_data.soil
        after_weather ==
            IF weather_data = <<>>
            THEN 30 - 9
            ELSE 30 - 2 * MissingParams(WeatherKeyParams, weather_data)
        after_soil ==
            IF soil_data = <<>>
            THEN after_weather - 6
            ELSE after_weather - MissingParams(SoilKeyParams, soil_data)
    IN  Max(3, after_soil)

----------------------------------------------------------------------------
(* Full pipeline path: src/src/utils.py and PredictionService.predict *)

\* utils.calculate_confidence_score without the lower clamp.
CalculateConfidenceScoreNoFloor(prediction, model_std, feature_quality) ==
    LET base_confidence ==
            IF prediction > 0
            THEN FracMax(Frac(0, 1), Frac(prediction - model_std, prediction))
            ELSE FracMax(Frac(0, 1), Frac(1, 2))
        confidence ==
            Frac(base_confidence.n * feature_quality, base_confidence.d * 30)
    IN  FracMin(Frac(1, 1), confidence)

\* utils.calculate_confidence_score(prediction, model_std, feature_quality):
\* prediction and model_std in milli-t/ha, feature_quality in thirtieths;
\* the conditional expression spans the whole first argument of max().
CalculateConfidenceScore(prediction, model_std, feature_quality) ==
    LET base_confidence ==
            IF prediction > 0
            THEN FracMax(Frac(0, 1), Frac(prediction - model_std, prediction))
            ELSE FracMax(Frac(0, 1), Frac(1, 2))
        confidence ==
            Frac(base_confidence.n * feature_quality, base_confidence.d * 30)
    IN  FracMax(Frac(1, 10), FracMin(Frac(1, 1), confidence))

\* The bound model as the predictors see it: the value its predict returns
\* (milli-t/ha) and, for tree ensembles, the sum of feature_importances_
\* (thousandths).
Predictions ==
    {-1000, -4, 0, 4, 6, 250, 499, 500, 3504, 15001}
        \cup {1000 * k : k \in 1..MaxYield}
ImportanceSums == {0, 500, 1000}
Models ==
    [prediction : Predictions, has_importances : {FALSE}, importance_sum : {0}]
        \cup [prediction : Predictions, has_importances : {TRUE},
              importance_sum : ImportanceSums]

\* prediction_std of PredictionService.predict, in milli-t/ha.
PredictionStd(model) ==
    IF model.has_importances
    THEN Max(200, 1000 - model.importance_sum)
    ELSE 300

\* The tail of PredictionService.predict, from self.model.predict(X) to the
\* result dictionary.  predicted_yield and prediction_interval are rounded to
\* 2 decimals (centi-t/ha), confidence to 3 decimals (thousandths).
FullResult(model, external_data) ==
    LET prediction == model.prediction
        prediction_std == PredictionStd(model)
        lower == Max(0, 100 * prediction - 196 * prediction_std)
        upper == 100 * prediction + 196 * prediction_std
        data_quality == AssessDataQuality(external_data)
        confidence ==
            CalculateConfidenceScore(prediction, prediction_std, data_quality)
    IN  [path |-> "full",
         model |-> model,
         external_data |-> external_data,
         predicted_yield |-> RoundHalfEven(prediction, 10),
         prediction_interval |->
            <<RoundHalfEven(lower, 1000), RoundHalfEven(upper, 1000)>>,
         confidence_exact |-> confidence,
         confidence |-> RoundHalfEven(1000 * confidence.n, confidence.d),
         data_quality |-> data_quality]

PredictFull ==
    /\ result = NoResult
    /\ \E model \in Models, weather \in WeatherMaps, soil \in SoilMaps :
          result' = FullResult(model, [weather |-> weather, soil |-> soil])
    /\ UNCHANGED <<apiVars, feVars, advVars, svcVars>>

\* A direct call of utils.calculate_confidence_score.
StdInputs == {0, 200, 300, 1000, 20000}
QualityInputs == 0..30

ScoreConfidence ==
    /\ result = NoResult
    /\ \E prediction \in Predictions, model_std \in StdInputs,
          feature_quality \in QualityInputs :
          result' =
            [path |-> "score",
             prediction |-> prediction,
             model_std |-> model_std,
             feature_quality |-> feature_quality,
             confidence_exact |->
                CalculateConfidenceScore(prediction, model_std,
                                         feature_quality)]
    /\ UNCHANGED <<apiVars, feVars, advVars, svcVars>>

\* A direct call of assess_data_quality: the weather map is any non-empty
\* dictionary (here always carrying humidity_mean) with any of the three key
\* parameters, or empty / absent; the soil map any of SoilMaps.
QualityWeatherOrder == <<"precip_sum", "temp_mean", "humidity_mean", "gdd">>
QualityWeatherMaps ==
    {<<>>} \cup
    {Restrict(QualityWeatherOrder, S \cup {"humidity_mean"}) :
        S \in SUBSET {"precip_sum", "temp_mean", "gdd"}}

AssessDataQualityCall ==
    /\ result = NoResult
    /\ \E weather \in QualityWeatherMaps, soil \in SoilMaps :
          LET external_data == [weather |-> weather, soil |-> soil]
          IN  result' =
                [path |-> "quality",
                 external_data |-> external_data,
                 data_quality |-> AssessDataQuality(external_data)]
    /\ UNCHANGED <<apiVars, feVars, advVars, svcVars>>

----------------------------------------------------------------------------
(* PredictionService.get_top_features *)

\* top_k
TopK == 5

\* Longest feature vector handed to get_top_features.
MaxFeatures == 6

\* The columns of X, and the value of each in the single row, in units of
\* 1/10000.
TopColumns ==
    <<"precip_sum", "temp_mean", "gdd", "soil_phh2o", "soil_soc",
      "soil_clay", "yield_lag1", "yield_trend">>
TopValues ==
    [precip_sum |-> 12000000, temp_mean |-> 275004, gdd |-> 32000000,
     soil_phh2o |-> 58005, soil_soc |-> 25015, soil_clay |-> 300000,
     yield_lag1 |-> 30000, yield_trend |-> 496]

\* feature_importances_ of the bound model, in units of 1/100000: absent
\* (kind "none"), one number per trained feature (kind "vector"), or an
\* attribute zip() cannot iterate (kind "broken").
ImportanceValues == {0, 12341, 12344, 30000}
Importances ==
    {[kind |-> "none", values |-> <<>>], [kind |-> "broken", values |-> <<>>]}
        \cup {[kind |-> "vector", values |-> v] :
                v \in UNION {[1..n -> ImportanceValues] : n \in 0..MaxFeatures}}

\* list(zip(feature_names, importances)): as long as the shorter of the two.
Zip(names, importances) ==
    [i \in 1..Min(Len(names), Len(importances)) |->
        <<names[i], importances[i]>>]

\* pairs.sort(key=lambda x: x[1], reverse=True): the sort is stable, equal
\* keys keep the order they had.
RECURSIVE SortByImportance(_)
SortByImportance(pairs) ==
    IF pairs = <<>> THEN <<>>
    ELSE LET first ==
                CHOOSE i \in 1..Len(pairs) :
                    /\ \A j \in 1..Len(pairs) : pairs[j][2] <= pairs[i][2]
                    /\ \A j \in 1..(i - 1) : pairs[j][2] < pairs[i][2]
         IN  <<pairs[first]>>
                \o SortByImportance(
                        [j \in 1..(Len(pairs) - 1) |->
                            IF j < first THEN pairs[j] ELSE pairs[j + 1]])

\* One entry of the list: value rounded to 3 decimals, importance to 4.
TopEntry(feature_name, value, importance) ==
    [feature |-> feature_name,
     value |-> RoundHalfEven(value, 10),
     importance |-> importance]

\* get_top_features without the sort.
GetTopFeaturesUnsorted(importances, columns) ==
    IF importances.kind = "broken" THEN <<>>
    ELSE IF importances.kind = "vector"
    THEN LET feature_importance_pairs == Zip(columns, importances.values)
         IN  [i \in 1..Min(TopK, Len(feature_importance_pairs)) |->
                TopEntry(feature_importance_pairs[i][1],
                         TopValues[feature_importance_pairs[i][1]],
                         RoundHalfEven(feature_importance_pairs[i][2], 10))]
    ELSE [i \in 1..Min(TopK, Len(columns)) |->
            TopEntry(columns[i], TopValues[columns[i]], 1000)]

\* PredictionService.get_top_features(X) for the model's importances and
\* the columns of X; importances of the entries in units of 1/10000
\* (0.1 = 1000).  Any exception gives the empty list.
GetTopFeatures(importances, columns) ==
    IF importances.kind = "broken" THEN <<>>
    ELSE IF importances.kind = "vector"
    THEN LET feature_importance_pairs ==
                SortByImportance(Zip(columns, importances.values))
         IN  [i \in 1..Min(TopK, Len(feature_importance_pairs)) |->
                TopEntry(feature_importance_pairs[i][1],
                         TopValues[feature_importance_pairs[i][1]],
                         RoundHalfEven(feature_importance_pairs[i][2], 10))]
    ELSE [i \in 1..Min(TopK, Len(columns)) |->
            TopEntry(columns[i], TopValues[columns[i]], 1000)]

GetTopFeaturesCall ==
    /\ result = NoResult
    /\ \E importances \in Importances, n \in 0..MaxFeatures :
          LET columns == SubSeq(TopColumns, 1, n)
          IN  result' =
                [path |-> "top",
                 importances |-> importances,
                 columns |-> columns,
                 top_features |-> GetTopFeatures(importances, columns)]
    /\ UNCHANGED <<apiVars, feVars, advVars, svcVars>>

----------------------------------------------------------------------------
(* Simple path: src/backend/ml_utils.py, CropYieldPredictor *)

\* model_metadata as calculate_confidence_score reads it.  test_r2 is in
\* twentieths.  "not_a_dict" is a 'metrics' entry on which the membership test
\* raises, "r2_not_a_number" a test_r2 on which max() raises.
R2Values == {-4, 0, 9, 10, 15, 18, 19, 20, 40}
Metadata ==
    {[metrics |-> "absent", test_r2 |-> 0],
     [metrics |-> "without_r2", test_r2 |-> 0],
     [metrics |-> "not_a_dict", test_r2 |-> 0],
     [metrics |-> "r2_not_a_number", test_r2 |-> 0]}
        \cup [metrics : {"with_r2"}, test_r2 : R2Values]

\* np.random.uniform(0.9, 1.1) in tenths, np.random.uniform(0.7, 0.9) in
\* thousandths (the upper end is excluded).
Jitters == {9, 10, 11}
FallbackJitters == {700, 800, 899}

ConfidenceRaises(metadata) ==
    metadata.metrics \in {"not_a_dict", "r2_not_a_number"}

\* CropYieldPredictor.calculate_confidence_score with the final clamp left out.
SimpleConfidenceScoreNoClamp(metadata, prediction, jitter, fallback) ==
    IF ConfidenceRaises(metadata)
    THEN fallback
    ELSE
        LET base_confidence ==
                IF metadata.metrics = "with_r2"
                THEN Min(19, Max(10, metadata.test_r2))
                ELSE 16
            plausibility ==
                IF prediction < 500 \/ prediction > 15000 THEN 4 ELSE 5
        IN  base_confidence * plausibility * jitter

\* CropYieldPredictor.calculate_confidence_score(features_df, prediction), in
\* thousandths: base_confidence in twentieths (0.8 = 16, clamp [0.5, 0.95] =
\* [10, 19]), the 0.8 plausibility factor in fifths, the jitter in tenths.
\* The except branch returns the fallback draw unclamped.
SimpleConfidenceScore(metadata, prediction, jitter, fallback) ==
    IF ConfidenceRaises(metadata)
    THEN fallback
    ELSE
        LET base_confidence ==
                IF metadata.metrics = "with_r2"
                THEN Min(19, Max(10, metadata.test_r2))
                ELSE 16
            plausibility ==
                IF prediction < 500 \/ prediction > 15000 THEN 4 ELSE 5
            confidence == base_confidence * plausibility * jitter
        IN  Max(500, Min(950, confidence))

\* CropYieldPredictor.calculate_prediction_interval(prediction, confidence):
\* prediction in milli-t/ha, confidence in thousandths.  In units of
\* 1/50000 milli-t/ha, 1.96 * std_error = 49 * prediction * (1000 - confidence);
\* both bounds are rounded to 2 decimals.
CalculatePredictionInterval(prediction, confidence) ==
    LET spread == 49 * prediction * (1000 - confidence)
        lower_bound == Max(0, 50000 * prediction - spread)
        upper_bound == 50000 * prediction + spread
    IN  <<RoundHalfEven(lower_bound, 500000),
          RoundHalfEven(upper_bound, 500000)>>

\* The tail of CropYieldPredictor.predict, from self.model.predict to the
\* returned triple: the estimate is returned as float(yield_prediction),
\* unrounded.
SimpleResult(model, metadata, jitter, fallback) ==
    LET yield_prediction == model.prediction
        confidence ==
            SimpleConfidenceScore(metadata, yield_prediction, jitter, fallback)
    IN  [path |-> "simple",
         model |-> model,
         metadata |-> metadata,
         raised |-> ConfidenceRaises(metadata),
         yield_estimate |-> yield_prediction,
         confidence |-> confidence,
         prediction_interval |->
            CalculatePredictionInterval(yield_prediction, confidence)]

PredictSimple ==
    /\ result = NoResult
    /\ \E model \in Models, metadata \in Metadata, jitter \in Jitters,
          fallback \in FallbackJitters :
          result' = SimpleResult(model, metadata, jitter, fallback)
    /\ UNCHANGED <<apiVars, feVars, advVars, svcVars>>

----------------------------------------------------------------------------
(* Specification of the two estimators *)

InitEngineer ==
    /\ scalers = [c \in {} |-> [mean_ |-> 0, var_ |-> 0]]
    /\ encoders = [c \in {} |-> <<>>]
    /\ feature_names = <<>>
    /\ selected_features = <<>>
    /\ transformed = NoFrame

\* Requests POST /predict receives in a run.
MaxRequests == 2

\* Nothing yet: no request, no prediction, no advisory, no response.
Nothing == [kind |-> "none"]

\* A request that has not arrived: no step taken, no answer (status 0).
NewHandler ==
    [pc |-> "new", request |-> Nothing, log |-> <<>>,
     prediction_result |-> Nothing, advisory_result |-> Nothing,
     response |-> Nothing, status |-> 0]

\* The API at startup: no handler running, no background task, no row in
\* predictions, no batch answered.
InitApi ==
    api = [handlers |-> [id \in 1..MaxRequests |-> NewHandler],
           tasks |-> {}, predictions |-> {}, batch |-> Nothing]

\* CropYieldPredictor.__init__ and PredictionService.__init__: no model, no
\* feature engineer, empty metadata.
InitServices ==
    /\ predictor =
          [model |-> NoModel, is_fitted |-> FALSE, feature_engineer |-> FALSE,
           model_metadata |-> [metrics |-> "absent", test_r2 |-> 0]]
    /\ service = [model |-> NoModel, feature_engineer |-> FALSE]

\* The caller takes the result; the predictors keep nothing of a request.
ReturnResult ==
    /\ result # NoResult
    /\ result' = NoResult
    /\ UNCHANGED <<apiVars, feVars, advVars, svcVars>>

InitConf ==
    /\ result = NoResult
    /\ InitEngineer
    /\ advisory = NoAdvisory
    /\ InitServices
    /\ InitApi

NextConf ==
    \/ PredictFull
    \/ ScoreConfidence
    \/ AssessDataQualityCall
    \/ GetTopFeaturesCall
    \/ PredictSimple
    \/ ReturnResult

SpecConf == InitConf /\ [][NextConf]_vars

----------------------------------------------------------------------------
(* Properties of the estimators *)

InUnitClamp(c) == FracLeq(Frac(1, 10), c) /\ FracLeq(c, Frac(1, 1))

\* C1: utils.calculate_confidence_score returns a value in [0.1, 1.0] for
\* every prediction >= 0, every model_std >= 0 and every feature_quality in
\* [0, 1], and the confidence reported by PredictionService.predict (rounded
\* to 3 decimals) is in [0.1, 1.0].
C1_FullConfidenceInRange ==
    /\ (result.path = "score" /\ result.prediction >= 0)
          => InUnitClamp(result.confidence_exact)
    /\ result.path = "full"
          => /\ InUnitClamp(result.confidence_exact)
             /\ result.confidence >= 100
             /\ result.confidence <= 1000

\* C1 witness: a full-path result for a non-negative prediction whose
\* unclamped confidence is below 0.1, reported as 0.1.
C1_Witness ==
    /\ result.path = "full"
    /\ result.model.prediction >= 0
    /\ result.data_quality < 30
    /\ result.confidence = 100

\* C2: CropYieldPredictor.calculate_confidence_score returns a value in
\* [0.5, 0.95] for every prediction, every metadata and every jitter, the
\* except branch included.
C2_SimpleConfidenceInRange ==
    result.path = "simple"
        => result.confidence >= 500 /\ result.confidence <= 950

\* C2 witness: the computation raised and the fallback draw was returned.
C2_Witness ==
    /\ result.path = "simple"
    /\ result.raised
    /\ result.confidence = 899

\* C3: in every result of either predictor with a non-negative estimate, the
\* reported interval [low, high] has low >= 0 and low <= reported estimate
\* <= high.  (Full path: estimate and interval in centi-t/ha; simple path:
\* the estimate in milli-t/ha as returned, the interval in centi-t/ha.)
C3_IntervalBracketsEstimate ==
    /\ (result.path = "full" /\ result.model.prediction >= 0)
          => /\ result.prediction_interval[1] >= 0
             /\ result.prediction_interval[1] <= result.predicted_yield
             /\ result.predicted_yield <= result.prediction_interval[2]
    /\ (result.path = "simple" /\ result.yield_estimate >= 0)
          => /\ result.prediction_interval[1] >= 0
             /\ 10 * result.prediction_interval[1] <= result.yield_estimate
             /\ result.yield_estimate <= 10 * result.prediction_interval[2]

\* C4: the point estimate of every result of either predictor is >= 0,
\* whatever the bound model's predict returns.
C4_EstimateNonNegative ==
    /\ result.path = "full" => result.predicted_yield >= 0
    /\ result.path = "simple" => result.yield_estimate >= 0

\* C20 (as claimed): the prediction components are pure: another invocation
\* with the inputs of the result just returned, against the same bound model
\* and metadata, returns the same estimate, the same confidence and the same
\* interval, whatever the random draws of that invocation.
C20_SameInputsSameResult ==
    /\ result.path = "full"
          => FullResult(result.model, result.external_data) = result
    /\ result.path = "simple"
          => \A jitter \in Jitters, fallback \in FallbackJitters :
                LET again ==
                        SimpleResult(result.model, result.metadata, jitter,
                                     fallback)
                IN  /\ again.yield_estimate = result.yield_estimate
                    /\ again.confidence = result.confidence
                    /\ again.prediction_interval = result.prediction_interval

\* What holds of C20: the full pipeline path is a function of its inputs,
\* and the simple path's point estimate is.
C20_FullPathAndEstimateRepeat ==
    /\ result.path = "full"
          => FullResult(result.model, result.external_data) = result
    /\ result.path = "simple"
          => \A jitter \in Jitters, fallback \in FallbackJitters :
                SimpleResult(result.model, result.metadata, jitter,
                             fallback).yield_estimate = result.yield_estimate

\* The case of C20: a simple-path result whose confidence came from a draw
\* of 0.9 and lies strictly inside the clamp, so that a draw of 1.0 gives
\* another confidence.
C20_JitterCase ==
    /\ result.path = "simple"
    /\ ~result.raised
    /\ result.confidence > 500
    /\ result.confidence < 950
    /\ SimpleResult(result.model, result.metadata, 10, 700).confidence
          > result.confidence

\* C21: assess_data_quality returns a score in [0.1, 1.0]; for each family,
\* with the other family held fixed, the score with that family's map empty
\* is strictly lower than the score with the map present, whatever number
\* (0 to 3) of its key fields is missing; the score is 1.0 exactly when both
\* families are present with all their key fields.
C21_DataQualityPenalties ==
    result.path \in {"quality", "full"} =>
        LET weather == result.external_data.weather
            soil == result.external_data.soil
        IN  /\ result.data_quality >= 3
            /\ result.data_quality <= 30
            /\ weather # <<>> =>
                  AssessDataQuality([weather |-> <<>>, soil |-> soil])
                      < result.data_quality
            /\ soil # <<>> =>
                  AssessDataQuality([weather |-> weather, soil |-> <<>>])
                      < result.data_quality
            /\ result.data_quality = 30 <=>
                  /\ weather # <<>>
                  /\ soil # <<>>
                  /\ MissingParams(WeatherKeyParams, weather) = 0
                  /\ MissingParams(SoilKeyParams, soil) = 0

\* C21 witness: a present weather map without any of its three key
\* parameters and a present soil map without any of its three, scored
\* 1.0 - 0.2 - 0.1 = 0.7, above the 0.5 of two empty maps.
C21_Witness ==
    /\ result.path = "quality"
    /\ result.external_data.weather # <<>>
    /\ result.external_data.soil # <<>>
    /\ MissingParams(WeatherKeyParams, result.external_data.weather) = 3
    /\ MissingParams(SoilKeyParams, result.external_data.soil) = 3
    /\ result.data_quality = 21

\* The distance, in units of 1/50000 milli-t/ha, between a reported interval
\* (centi-t/ha) and [max(0, e - 1.96 s), e + 1.96 s] with
\* s = e * (1 - confidence) * 0.5, for an estimate e in milli-t/ha and a
\* confidence in thousandths: 1.96 * s = 49 * e * (1000 - confidence) units.
IntervalGap(interval, estimate, confidence) ==
    LET spread == 49 * estimate * (1000 - confidence)
        low == IF 50000 * estimate - spread >= 0
               THEN 50000 * estimate - spread ELSE 0
        high == 50000 * estimate + spread
        gap_low == 500000 * interval[1] - low
        gap_high == 500000 * interval[2] - high
    IN  <<IF gap_low >= 0 THEN gap_low ELSE -gap_low,
          IF gap_high >= 0 THEN gap_high ELSE -gap_high>>

\* C22 (as claimed): in every result of either predictor the reported
\* interval is [max(0, estimate - 1.96 s), estimate + 1.96 s] with
\* s = estimate * (1 - confidence) * 0.5 for the confidence reported in the
\* same result, up to the rounding applied (each bound within two hundredths
\* of a t/ha, more than the rounding of the bounds to 2 decimals and of the
\* confidence to 3 decimals can move it).
C22_IntervalFromConfidence ==
    /\ result.path = "full" =>
          LET gap == IntervalGap(result.prediction_interval,
                                 result.model.prediction, result.confidence)
          IN  gap[1] <= 1000000 /\ gap[2] <= 1000000
    /\ result.path = "simple" =>
          LET gap == IntervalGap(result.prediction_interval,
                                 result.yield_estimate, result.confidence)
          IN  gap[1] <= 1000000 /\ gap[2] <= 1000000

\* What holds of C22: the simple path derives the interval from the
\* confidence it reports; the full path's interval is the estimate -/+ 1.96
\* times prediction_std, which is 0.3 or max(0.2, 1 - sum of importances)
\* whatever the confidence.
C22_SimpleFromConfidenceFullFromStd ==
    /\ result.path = "simple" =>
          LET gap == IntervalGap(result.prediction_interval,
                                 result.yield_estimate, result.confidence)
          IN  gap[1] <= 250000 /\ gap[2] <= 250000
    /\ result.path = "full" =>
          LET prediction == result.model.prediction
              prediction_std == PredictionStd(result.model)
          IN  result.prediction_interval =
                <<RoundHalfEven(Max(0, 100 * prediction - 196 * prediction_std),
                                1000),
                  RoundHalfEven(100 * prediction + 196 * prediction_std, 1000)>>

\* The case of C22: a full-path result for 3.0 t/ha from a model without
\* importances and complete data: confidence 0.9, so s = 0.15 and the claimed
\* interval is [2.71, 3.29]; the reported one is [2.41, 3.59].
C22_FullPathCase ==
    /\ result.path = "full"
    /\ result.model.prediction = 3000
    /\ ~result.model.has_importances
    /\ result.confidence = 900
    /\ result.prediction_interval = <<241, 359>>

\* The place of a feature in the vector handed to get_top_features.
Position(columns, feature) ==
    CHOOSE i \in 1..Len(columns) : columns[i] = feature

----------------------------------------------------------------------------
(* Advisory engine: src/src/api/advisory.py                                *)
(*                                                                         *)
(* A text is the sequence of the fragments the code concatenates.  Values  *)
(* read from the prediction result are Num(n) or NotNum, a value on which  *)
(* a comparison with a number raises TypeError (None, a string).  Units:   *)
(* rainfall mm, humidity %, temperature degrees C, soil pH and organic     *)
(* carbon in tenths, fertilizer kg/ha, yield in centi-t/ha, confidence in  *)
(* thousandths.                                                            *)

Num(n) == [num |-> TRUE, v |-> n]
NotNum == [num |-> FALSE, v |-> 0]

\* The irrigation rules with the low-rainfall threshold at 300 mm.
IrrigationRulesLow300 ==
    [low_rainfall_threshold |-> 300,
     high_rainfall_threshold |-> 1200,
     optimal_irrigation_events |-> 8]

\* The yield thresholds with the rice 'low' threshold at 1.0 t/ha.
YieldThresholdsRiceLow100 ==
    [rice |-> [low |-> 100, medium |-> 350, high |-> 500],
     wheat |-> [low |-> 150, medium |-> 250, high |-> 400]]

\* AdvisoryEngine.load_advisory_rules
IrrigationRules ==
    [low_rainfall_threshold |-> 500,
     high_rainfall_threshold |-> 1200,
     optimal_irrigation_events |-> 8]
FertilizerRules ==
    [rice |-> [N_recommended |-> 120, P_recommended |-> 60,
               K_recommended |-> 40, split_applications |-> 3],
     wheat |-> [N_recommended |-> 100, P_recommended |-> 50,
                K_recommended |-> 30, split_applications |-> 2]]
PestRiskRules ==
    [high_humidity_threshold |-> 80,
     high_temp_threshold |-> 30,
     rainfall_pest_threshold |-> 100]
YieldThresholds ==
    [rice |-> [low |-> 200, medium |-> 350, high |-> 500],
     wheat |-> [low |-> 150, medium |-> 250, high |-> 400]]

\* str.lower() on the crop identifiers of the model.
Lower(crop) ==
    CASE crop = "Rice" -> "rice"
      [] crop = "Wheat" -> "wheat"
      [] OTHER -> crop

\* dict.get(crop, default) with the wheat entry as the default.
RulesGetWheatDefault(table, crop) ==
    IF crop \in DOMAIN table THEN table[crop] ELSE table.wheat

\* table.get(crop, table['rice'])
RulesGet(table, crop) ==
    IF crop \in DOMAIN table THEN table[crop] ELSE table.rice

\* {f['feature']: f['value'] for f in top_features}.get(name, default):
\* the last entry of a feature wins.
TopGet(top_features, name, default) ==
    LET hits == {i \in 1..Len(top_features) : top_features[i].feature = name}
    IN  IF hits = {}
        THEN Num(default)
        ELSE top_features[CHOOSE i \in hits : \A j \in hits : j <= i].value

\* request.farmer_inputs.<field> or 0
FarmerValue(request, field) ==
    IF request.farmer_inputs.given /\ field \in request.farmer_inputs.supplied
    THEN request.farmer_inputs.values[field]
    ELSE 0

IrrigationFallback ==
    <<"Monitor soil moisture and irrigate when top 5cm soil is dry.">>
FertilizerFallback ==
    <<"Apply balanced NPK fertilizer as per soil test recommendations.">>
PestFallback ==
    <<"Monitor crops regularly for pests and diseases. Use IPM practices.">>
GeneralFallback ==
    <<"Follow recommended agricultural practices for your region and crop.">>

\* generate_irrigation_advisory: what makes its try block raise.
IrrigationRaises(prediction_result) ==
    \/ "top_features" \notin prediction_result.keys
    \/ ~TopGet(prediction_result.top_features, "precip_sum", 800).num

\* generate_irrigation_advisory: the try block.
IrrigationText(prediction_result, request) ==
    LET precip_sum ==
            TopGet(prediction_result.top_features, "precip_sum", 800).v
        events == IrrigationRules.optimal_irrigation_events
        body ==
            IF precip_sum < IrrigationRules.low_rainfall_threshold
            THEN <<"Low rainfall detected (", ToString(precip_sum), "mm). ",
                   "Increase irrigation to ", ToString(events + 2), " events. ",
                   "Apply 50-60mm per irrigation. ",
                   "Focus on critical growth stages: tillering and flowering.">>
            ELSE IF precip_sum > IrrigationRules.high_rainfall_threshold
            THEN <<"High rainfall detected (", ToString(precip_sum), "mm). ",
                   "Reduce irrigation frequency. Monitor for waterlogging. ",
                   "Ensure proper drainage. Apply irrigation only during dry spells.">>
            ELSE <<"Normal rainfall pattern (", ToString(precip_sum), "mm). ",
                   "Maintain ", ToString(events), " irrigation events. ",
                   "Apply 40-50mm per irrigation. ",
                   "Monitor soil moisture at 15cm depth.">>
    IN  body \o
        <<" Best irrigation times: early morning (6-8 AM) or evening (6-8 PM).">>

GenerateIrrigationAdvisory(prediction_result, request) ==
    IF IrrigationRaises(prediction_result)
    THEN IrrigationFallback
    ELSE IrrigationText(prediction_result, request)

\* generate_fertilizer_advisory: what makes its try block raise.
FertilizerRaises(prediction_result) ==
    \/ "top_features" \notin prediction_result.keys
    \/ ~TopGet(prediction_result.top_features, "soil_phh2o", 65).num
    \/ ~TopGet(prediction_result.top_features, "soil_soc", 15).num

\* generate_fertilizer_advisory: the try block.
FertilizerText(prediction_result, request) ==
    LET crop == Lower(request.crop)
        soil_ph == TopGet(prediction_result.top_features, "soil_phh2o", 65).v
        soil_organic == TopGet(prediction_result.top_features, "soil_soc", 15).v
        current_n == FarmerValue(request, "fertilizer_N_kg")
        current_p == FarmerValue(request, "fertilizer_P_kg")
        current_k == FarmerValue(request, "fertilizer_K_kg")
        crop_rules == RulesGet(FertilizerRules, crop)
        recommended_n ==
            IF soil_organic < 10
            THEN crop_rules.N_recommended + 20
            ELSE crop_rules.N_recommended
        recommended_p == crop_rules.P_recommended
        recommended_k == crop_rules.K_recommended
        ph_part ==
            IF soil_ph < 60
            THEN <<"Soil pH is low (", ToString(soil_ph),
                   "). Apply lime before fertilization. ">>
            ELSE IF soil_ph > 75
            THEN <<"Soil pH is high (", ToString(soil_ph),
                   "). Consider sulfur application. ">>
            ELSE <<"Soil pH is optimal (", ToString(soil_ph), "). ">>
        organic_part ==
            IF soil_organic < 10
            THEN <<"Low organic matter detected. Increase nitrogen to ",
                   ToString(recommended_n), " kg/ha. ">>
            ELSE <<>>
        n_gap == recommended_n - current_n
        n_part ==
            IF n_gap > 10
            THEN <<"Apply additional ", ToString(n_gap), " kg/ha nitrogen. ">>
            ELSE IF n_gap < -10
            THEN <<"Reduce nitrogen by ", ToString(0 - n_gap),
                   " kg/ha to avoid lodging. ">>
            ELSE <<"Current nitrogen level is adequate. ">>
        p_part ==
            IF current_p < recommended_p
            THEN <<"Apply ", ToString(recommended_p - current_p),
                   " kg/ha phosphorus. ">>
            ELSE <<>>
        k_part ==
            IF current_k < recommended_k
            THEN <<"Apply ", ToString(recommended_k - current_k),
                   " kg/ha potassium. ">>
            ELSE <<>>
        split_part ==
            <<"Split fertilizer application into ",
              ToString(crop_rules.split_applications), " doses: ">>
        schedule ==
            IF crop = "rice"
            THEN <<"basal (50%), tillering (25%), panicle initiation (25%).">>
            ELSE <<"basal (60%), tillering/jointing (40%).">>
    IN  ph_part \o organic_part \o n_part \o p_part \o k_part
            \o split_part \o schedule

GenerateFertilizerAdvisory(prediction_result, request) ==
    IF FertilizerRaises(prediction_result)
    THEN FertilizerFallback
    ELSE FertilizerText(prediction_result, request)

\* generate_pest_advisory: what makes its try block raise.
PestRaises(prediction_result) ==
    \/ "top_features" \notin prediction_result.keys
    \/ ~TopGet(prediction_result.top_features, "humidity_mean", 75).num
    \/ ~TopGet(prediction_result.top_features, "temp_max", 30).num
    \/ ~TopGet(prediction_result.top_features, "precip_sum", 800).num

\* ', '.join(risk_factors)
JoinFactors(factors) ==
    [i \in 1..(IF Len(factors) = 0 THEN 0 ELSE 2 * Len(factors) - 1) |->
        IF i % 2 = 1 THEN factors[(i + 1) \div 2] ELSE ", "]

\* The three rules with the temperature rule assigning "Medium" whatever the
\* humidity rule has set.
PestRiskLevelTempOverrides(humidity, temp_max, precip_sum) ==
    LET after_temp ==
            IF temp_max > PestRiskRules.high_temp_threshold
            THEN "Medium"
            ELSE IF humidity > PestRiskRules.high_humidity_threshold
            THEN "High" ELSE "Low"
    IN  IF precip_sum > 1000 THEN "High" ELSE after_temp

\* risk_level of generate_pest_advisory after its three rules.
PestRiskLevel(humidity, temp_max, precip_sum) ==
    LET after_humidity ==
            IF humidity > PestRiskRules.high_humidity_threshold
            THEN "High" ELSE "Low"
        after_temp ==
            IF temp_max > PestRiskRules.high_temp_threshold
                /\ after_humidity # "High"
            THEN "Medium" ELSE after_humidity
    IN  IF precip_sum > 1000 THEN "High" ELSE after_temp

\* generate_pest_advisory: the try block.
PestText(prediction_result, request) ==
    LET top_features == prediction_result.top_features
        crop == Lower(request.crop)
        humidity == TopGet(top_features, "humidity_mean", 75).v
        temp_max == TopGet(top_features, "temp_max", 30).v
        precip_sum == TopGet(top_features, "precip_sum", 800).v
        risk_level == PestRiskLevel(humidity, temp_max, precip_sum)
        risk_factors ==
            (IF humidity > PestRiskRules.high_humidity_threshold
             THEN <<"high humidity">> ELSE <<>>)
            \o (IF temp_max > PestRiskRules.high_temp_threshold
                THEN <<"high temperature">> ELSE <<>>)
            \o (IF precip_sum > 1000 THEN <<"excessive rainfall">> ELSE <<>>)
        head ==
            <<risk_level, " pest risk detected">>
            \o (IF risk_factors # <<>>
                THEN <<" due to ">> \o JoinFactors(risk_factors) \o <<". ">>
                ELSE <<". ">>)
        guidance ==
            IF crop = "rice"
            THEN IF risk_level = "High"
                 THEN <<"Monitor for blast, brown spot, and stem borer. ",
                        "Apply preventive fungicide spray. ",
                        "Use pheromone traps for stem borer control. ">>
                 ELSE IF risk_level = "Medium"
                 THEN <<"Regular field monitoring recommended. ",
                        "Watch for early signs of blast and bacterial blight. ">>
                 ELSE <<"Continue regular field inspection. ",
                        "Maintain field hygiene. ">>
            ELSE IF risk_level = "High"
                 THEN <<"Increase field monitoring frequency. ",
                        "Consider preventive spray if weather continues. ">>
                 ELSE <<"Regular monitoring sufficient. ",
                        "Maintain good field sanitation. ">>
    IN  head \o guidance \o
        <<"Use integrated pest management: ",
          "biological control, resistant varieties, and targeted pesticide use.">>

GeneratePestAdvisory(prediction_result, request) ==
    IF PestRaises(prediction_result)
    THEN PestFallback
    ELSE PestText(prediction_result, request)

\* generate_general_advisory: what makes its try block raise.
GeneralRaises(prediction_result) ==
    \/ "predicted_yield" \notin prediction_result.keys
    \/ "confidence" \notin prediction_result.keys
    \/ ~prediction_result.predicted_yield.num
    \/ ~prediction_result.confidence.num

\* generate_general_advisory: the try block; current_month is
\* datetime.now().month.
GeneralText(prediction_result, request, current_month) ==
    LET predicted_yield == prediction_result.predicted_yield.v
        confidence == prediction_result.confidence.v
        crop == Lower(request.crop)
        thresholds == RulesGet(YieldThresholds, crop)
        yield_category ==
            IF predicted_yield < thresholds.low THEN "below average"
            ELSE IF predicted_yield < thresholds.medium THEN "average"
            ELSE "above average"
        improvement_potential ==
            IF predicted_yield < thresholds.low THEN "high"
            ELSE IF predicted_yield < thresholds.medium THEN "medium"
            ELSE "low"
        head ==
            <<"Predicted yield is ", yield_category, " (",
              ToString(predicted_yield), " t/ha). ">>
        improvement ==
            IF improvement_potential = "high"
            THEN <<"Significant improvement possible through: ",
                   "soil testing, balanced nutrition, timely operations, ",
                   "and improved varieties. ">>
            ELSE IF improvement_potential = "medium"
            THEN <<"Moderate improvement possible through: ",
                   "precision nutrient management and pest control. ">>
            ELSE <<"Maintain current good practices. ",
                   "Focus on cost optimization and sustainability. ">>
        caveat ==
            IF confidence < 600
            THEN <<"Prediction confidence is moderate. ",
                   "Consider multiple information sources for decision making. ">>
            ELSE <<>>
        seasonal ==
            IF crop = "rice" /\ 4 <= current_month /\ current_month <= 6
            THEN <<"Prepare for kharif season: check seed quality, repair equipment.">>
            ELSE IF crop = "wheat" /\ 10 <= current_month /\ current_month <= 12
            THEN <<"Prepare for rabi season: ensure timely sowing for optimal yield.">>
            ELSE <<>>
    IN  head \o improvement \o caveat \o seasonal \o
        <<"Monitor market prices and consider value addition opportunities. ",
          "Maintain harvest and post-harvest records for better planning.">>

GenerateGeneralAdvisory(prediction_result, request, current_month) ==
    IF GeneralRaises(prediction_result)
    THEN GeneralFallback
    ELSE GeneralText(prediction_result, request, current_month)

ResultKeys == {"predicted_yield", "confidence", "top_features"}

Disclaimer ==
    <<"Recommendations are based on limited data. ",
      "Consider consulting local agricultural experts.">>

\* The return value of the except branch of generate_advisory.
FallbackBundle ==
    [advisory |->
        [irrigation |-> <<"Unable to generate irrigation advisory">>,
         fertilizer |-> <<"Unable to generate fertilizer advisory">>,
         pest |-> <<"Unable to generate pest advisory">>,
         general |-> <<"Consult local agricultural extension services">>],
     confidence |-> Num(100),
     based_on_features |-> <<>>]

\* generate_advisory outside the four derivations: the three subscripts of
\* prediction_result and the comparison confidence < 0.7.
BundleRaises(prediction_result) ==
    \/ ResultKeys \ prediction_result.keys # {}
    \/ ~prediction_result.confidence.num

\* A bundle to which the disclaimer is never added.
WithoutDisclaimer(advisory_dict) == advisory_dict

\* advisory['disclaimer'] = ...
WithDisclaimer(advisory_dict) ==
    [k \in DOMAIN advisory_dict \cup {"disclaimer"} |->
        IF k = "disclaimer" THEN Disclaimer ELSE advisory_dict[k]]

\* [f['feature'] for f in top_features[:3]]
BasedOnFeatures(top_features) ==
    [i \in 1..Min(3, Len(top_features)) |-> top_features[i].feature]

\* AdvisoryEngine.generate_advisory
GenerateAdvisory(prediction_result, request, current_month) ==
    IF BundleRaises(prediction_result)
    THEN FallbackBundle
    ELSE
        LET advisory_dict ==
                [irrigation |->
                    GenerateIrrigationAdvisory(prediction_result, request),
                 fertilizer |->
                    GenerateFertilizerAdvisory(prediction_result, request),
                 pest |-> GeneratePestAdvisory(prediction_result, request),
                 general |->
                    GenerateGeneralAdvisory(prediction_result, request,
                                            current_month)]
        IN  [advisory |->
                IF prediction_result.confidence.v < 700
                THEN WithDisclaimer(advisory_dict)
                ELSE advisory_dict,
             confidence |-> prediction_result.confidence,
             based_on_features |->
                BasedOnFeatures(prediction_result.top_features)]

(* Inputs of generate_advisory *)

Crops == {"rice", "Wheat", "maize"}
KnownCrops == {"rice", "wheat"}

NoFarmerInputs ==
    [given |-> FALSE, supplied |-> {},
     values |-> [fertilizer_N_kg |-> 0, fertilizer_P_kg |-> 0,
                 fertilizer_K_kg |-> 0, irrigation_events |-> 0,
                 area_ha |-> 0]]
SomeFarmerInputs ==
    [given |-> TRUE,
     supplied |-> {"fertilizer_N_kg", "fertilizer_P_kg", "fertilizer_K_kg",
                   "irrigation_events"},
     values |-> [fertilizer_N_kg |-> 150, fertilizer_P_kg |-> 60,
                 fertilizer_K_kg |-> 10, irrigation_events |-> 5,
                 area_ha |-> 0]]

AdvisoryRequests ==
    [crop : Crops, farmer_inputs : {NoFarmerInputs, SomeFarmerInputs}]

\* One entry of top_features, or none.
Entry(feature, value) ==
    <<[feature |-> feature, value |-> value, importance |-> 100]>>
FeatureChoices(feature, values) ==
    {<<>>} \cup {Entry(feature, v) : v \in values}

TopFeatureLists ==
    {p \o ph \o soc \o h \o t :
        p \in FeatureChoices("precip_sum", {Num(300), NotNum}),
        ph \in FeatureChoices("soil_phh2o", {Num(55), NotNum}),
        soc \in FeatureChoices("soil_soc", {NotNum}),
        h \in FeatureChoices("humidity_mean", {Num(90), NotNum}),
        t \in FeatureChoices("temp_max", {NotNum})}

YieldValues == {Num(120), Num(300), Num(400), NotNum}
\* Confidences around the two thresholds 0.6 and 0.7.
ConfidenceEdges == {599, 600, 699, 700}
ConfidenceValues == {Num(500), Num(650), Num(900), NotNum}

\* Prediction results with the three keys, and with one key missing.
PredictionResults ==
    [keys : {ResultKeys}, predicted_yield : YieldValues,
     confidence : ConfidenceValues, top_features : TopFeatureLists]
        \cup {[keys |-> ResultKeys \ {k}, predicted_yield |-> Num(300),
               confidence |-> Num(900), top_features |-> <<>>] :
                    k \in ResultKeys}
        \cup [keys : {ResultKeys}, predicted_yield : {Num(300), NotNum},
              confidence : {Num(c) : c \in ConfidenceEdges},
              top_features : {<<>>}]

Months == {1, 5, 11}

GenerateAdvisoryCall ==
    /\ advisory = NoAdvisory
    /\ \E prediction_result \in PredictionResults,
          request \in AdvisoryRequests, current_month \in Months :
          advisory' =
            [state |-> "returned",
             prediction_result |-> prediction_result,
             request |-> request,
             current_month |-> current_month,
             output |->
                GenerateAdvisory(prediction_result, request, current_month)]
    /\ UNCHANGED <<apiVars, confVars, feVars, svcVars>>

(* Direct calls of the four derivations *)

\* A prediction result carrying the given top_features.
ResultWith(top_features) ==
    [keys |-> ResultKeys, predicted_yield |-> Num(300),
     confidence |-> Num(900), top_features |-> top_features]

PrecipValues == {0, 300, 499, 500, 800, 1000, 1001, 1200, 1201, 2000}
HumidityValues == {70, 80, 81, 90}
TempMaxValues == {30, 31, 32}
PestPrecipValues == {300, 1000, 1001, 1200}
SoilPhValues == {55, 59, 60, 75, 76}
SoilOrganicValues == {5, 9, 10, 15}
GeneralYields == {120, 149, 150, 199, 200, 249, 250, 349, 350, 400}
GeneralConfidences == {500, 599, 600, 900}

Nums(values) == {Num(v) : v \in values}

GenerateIrrigationAdvisoryCall ==
    /\ advisory = NoAdvisory
    /\ \E p \in FeatureChoices("precip_sum", Nums(PrecipValues) \cup {NotNum}),
          request \in AdvisoryRequests :
          advisory' =
            [state |-> "irrigation",
             prediction_result |-> ResultWith(p),
             request |-> request,
             output |-> GenerateIrrigationAdvisory(ResultWith(p), request)]
    /\ UNCHANGED <<apiVars, confVars, feVars, svcVars>>

GenerateFertilizerAdvisoryCall ==
    /\ advisory = NoAdvisory
    /\ \E ph \in FeatureChoices("soil_phh2o", Nums(SoilPhValues)),
          soc \in FeatureChoices("soil_soc", Nums(SoilOrganicValues)),
          request \in AdvisoryRequests :
          advisory' =
            [state |-> "fertilizer",
             prediction_result |-> ResultWith(ph \o soc),
             request |-> request,
             output |-> GenerateFertilizerAdvisory(ResultWith(ph \o soc),
                                                   request)]
    /\ UNCHANGED <<apiVars, confVars, feVars, svcVars>>

GeneratePestAdvisoryCall ==
    /\ advisory = NoAdvisory
    /\ \E h \in FeatureChoices("humidity_mean", Nums(HumidityValues)),
          t \in FeatureChoices("temp_max", Nums(TempMaxValues)),
          p \in FeatureChoices("precip_sum", Nums(PestPrecipValues)),
          request \in AdvisoryRequests :
          advisory' =
            [state |-> "pest",
             prediction_result |-> ResultWith(h \o t \o p),
             request |-> request,
             output |-> GeneratePestAdvisory(ResultWith(h \o t \o p),
                                             request)]
    /\ UNCHANGED <<apiVars, confVars, feVars, svcVars>>

GenerateGeneralAdvisoryCall ==
    /\ advisory = NoAdvisory
    /\ \E predicted_yield \in GeneralYields,
          confidence \in GeneralConfidences,
          request \in AdvisoryRequests, current_month \in Months :
          LET prediction_result ==
                [keys |-> ResultKeys,
                 predicted_yield |-> Num(predicted_yield),
                 confidence |-> Num(confidence),
                 top_features |-> <<>>]
          IN  advisory' =
                [state |-> "general",
                 prediction_result |-> prediction_result,
                 request |-> request,
                 current_month |-> current_month,
                 output |-> GenerateGeneralAdvisory(prediction_result, request,
                                                    current_month)]
    /\ UNCHANGED <<apiVars, confVars, feVars, svcVars>>

\* The caller takes the bundle; the engine keeps nothing of a request.
ReturnAdvisory ==
    /\ advisory # NoAdvisory
    /\ advisory' = NoAdvisory
    /\ UNCHANGED <<apiVars, confVars, feVars, svcVars>>

InitAdv ==
    /\ result = NoResult
    /\ InitEngineer
    /\ advisory = NoAdvisory
    /\ InitServices
    /\ InitApi

NextAdv ==
    \/ GenerateAdvisoryCall
    \/ GenerateIrrigationAdvisoryCall
    \/ GenerateFertilizerAdvisoryCall
    \/ GeneratePestAdvisoryCall
    \/ GenerateGeneralAdvisoryCall
    \/ ReturnAdvisory

SpecAdv == InitAdv /\ [][NextAdv]_vars

----------------------------------------------------------------------------
(* Properties of the advisory engine *)

Domains == {"irrigation", "fertilizer", "pest", "general"}

DomainRaises(d, prediction_result) ==
    CASE d = "irrigation" -> IrrigationRaises(prediction_result)
      [] d = "fertilizer" -> FertilizerRaises(prediction_result)
      [] d = "pest" -> PestRaises(prediction_result)
      [] d = "general" -> GeneralRaises(prediction_result)

DomainFallback(d) ==
    CASE d = "irrigation" -> IrrigationFallback
      [] d = "fertilizer" -> FertilizerFallback
      [] d = "pest" -> PestFallback
      [] d = "general" -> GeneralFallback

DomainText(d, prediction_result, request, current_month) ==
    CASE d = "irrigation" -> IrrigationText(prediction_result, request)
      [] d = "fertilizer" -> FertilizerText(prediction_result, request)
      [] d = "pest" -> PestText(prediction_result, request)
      [] d = "general" ->
            GeneralText(prediction_result, request, current_month)

\* The derivations that raised during a call that reached them.
RaisedDomains(prediction_result) ==
    IF ResultKeys \ prediction_result.keys # {}
    THEN {}
    ELSE {d \in Domains : DomainRaises(d, prediction_result)}

\* The fragment a is directly followed by the fragment b in text.
Follows(text, a, b) ==
    \E i \in 1..(Len(text) - 1) : text[i] = a /\ text[i + 1] = b

\* C9: for every crop identifier and every prediction result the bundle of
\* generate_advisory has the four domain texts, each a non-empty string; an
\* unknown crop is served from the rice fertilizer table (doses, nitrogen
\* target) and the rice yield thresholds.
C9_AdvisoryTextsNonEmpty ==
    advisory.state = "returned" =>
        LET texts == advisory.output.advisory
            prediction_result == advisory.prediction_result
            request == advisory.request
            current_n == FarmerValue(request, "fertilizer_N_kg")
            rice_n == FertilizerRules.rice.N_recommended
            yield == prediction_result.predicted_yield.v
        IN  /\ Domains \subseteq DOMAIN texts
            /\ \A d \in Domains :
                  /\ Len(texts[d]) > 0
                  /\ \A i \in 1..Len(texts[d]) : texts[d][i] # ""
            /\ (Lower(request.crop) \notin KnownCrops
                    /\ ~BundleRaises(prediction_result))
                  => /\ ~FertilizerRaises(prediction_result)
                        => /\ Follows(texts.fertilizer,
                                "Split fertilizer application into ",
                                ToString(FertilizerRules.rice.split_applications))
                           /\ \/ Follows(texts.fertilizer, "Apply additional ",
                                         ToString(rice_n - current_n))
                              \/ Follows(texts.fertilizer, "Reduce nitrogen by ",
                                         ToString(current_n - rice_n))
                              \/ /\ rice_n - current_n <= 10
                                 /\ current_n - rice_n <= 10
                                 /\ \E i \in 1..Len(texts.fertilizer) :
                                       texts.fertilizer[i] =
                                          "Current nitrogen level is adequate. "
                     /\ ~GeneralRaises(prediction_result)
                        => texts.general[2] =
                              (IF yield < YieldThresholds.rice.low
                               THEN "below average"
                               ELSE IF yield < YieldThresholds.rice.medium
                               THEN "average"
                               ELSE "above average")

\* C9 witness: an unknown crop with a yield between the wheat and the rice
\* medium thresholds, served without any failure.
C9_Witness ==
    /\ advisory.state = "returned"
    /\ advisory.request.crop = "maize"
    /\ ~BundleRaises(advisory.prediction_result)
    /\ RaisedDomains(advisory.prediction_result) = {}
    /\ advisory.prediction_result.predicted_yield = Num(300)
    /\ advisory.output.advisory.general[2] = "average"

\* The texts of a bundle in which exactly the raised derivations fell back.
IsolatedTexts(texts, prediction_result, request, current_month) ==
    \A d \in Domains :
        texts[d] =
            IF DomainRaises(d, prediction_result)
            THEN DomainFallback(d)
            ELSE DomainText(d, prediction_result, request, current_month)

C10_OneFailureIsolatedNumericConfidence ==
    (advisory.state = "returned"
        /\ Cardinality(RaisedDomains(advisory.prediction_result)) = 1
        /\ advisory.prediction_result.confidence.num)
        => /\ IsolatedTexts(advisory.output.advisory,
                            advisory.prediction_result, advisory.request,
                            advisory.current_month)
           /\ advisory.output # FallbackBundle

\* The case of the lemma: only the pest derivation raised; its text is the
\* pest fallback and the irrigation text is the low-rainfall advice.
C10_IsolatedCase ==
    /\ advisory.state = "returned"
    /\ RaisedDomains(advisory.prediction_result) = {"pest"}
    /\ advisory.output.advisory.pest = PestFallback
    /\ advisory.output.advisory.irrigation[1] = "Low rainfall detected ("

\* The text of one derivation in the last call: that of a direct call of
\* the derivation, or the derivation's entry in a bundle that is not the
\* all-fallback bundle.
DerivedBy(d) ==
    \/ advisory.state = d
    \/ /\ advisory.state = "returned"
       /\ ~BundleRaises(advisory.prediction_result)

TextOf(d) ==
    IF advisory.state = "returned"
    THEN advisory.output.advisory[d]
    ELSE advisory.output

Contains(text, fragment) == \E i \in 1..Len(text) : text[i] = fragment

IrrigationSuffix ==
    " Best irrigation times: early morning (6-8 AM) or evening (6-8 PM)."

RegimeOpeners ==
    {"Low rainfall detected (", "Normal rainfall pattern (",
     "High rainfall detected ("}

\* C11: generate_irrigation_advisory selects exactly one rainfall regime from
\* precip_sum: below 500 the text opens with "Low rainfall" and recommends 10
\* events (above the baseline of 8), from 500 to 1200 it is the normal text
\* recommending 8 events, above 1200 it is the high-rainfall text; in the
\* three regimes the text ends with the best-irrigation-times suffix.
C11_IrrigationRegime ==
    (DerivedBy("irrigation") /\ ~IrrigationRaises(advisory.prediction_result))
        =>
        LET text == TextOf("irrigation")
            precip_sum ==
                TopGet(advisory.prediction_result.top_features,
                       "precip_sum", 800).v
        IN  /\ precip_sum < 500
                => /\ text[1] = "Low rainfall detected ("
                   /\ Follows(text, "Increase irrigation to ", "10")
            /\ (500 <= precip_sum /\ precip_sum <= 1200)
                => /\ text[1] = "Normal rainfall pattern ("
                   /\ Follows(text, "Maintain ", "8")
            /\ precip_sum > 1200
                => text[1] = "High rainfall detected ("
            /\ Cardinality({i \in 1..Len(text) : text[i] \in RegimeOpeners}) = 1
            /\ text[Len(text)] = IrrigationSuffix

\* C11 witness: rainfall of 300 mm, answered with the low-rainfall text and
\* 10 events.
C11_Witness ==
    /\ advisory.state = "irrigation"
    /\ TopGet(advisory.prediction_result.top_features, "precip_sum", 800)
          = Num(300)
    /\ advisory.output[1] = "Low rainfall detected ("
    /\ Follows(advisory.output, "Increase irrigation to ", "10")
    /\ advisory.output[Len(advisory.output)] = IrrigationSuffix

\* C12: generate_pest_advisory classifies the risk as High exactly when
\* humidity_mean > 80 or precip_sum > 1000, as Medium exactly when it is not
\* High and temp_max > 30, as Low otherwise; for rice a High classification
\* carries the blast / stem borer guidance, and every text of the try block
\* ends with the integrated-pest-management recommendation.
C12_PestRiskClassification ==
    (DerivedBy("pest") /\ ~PestRaises(advisory.prediction_result))
        =>
        LET text == TextOf("pest")
            top_features == advisory.prediction_result.top_features
            humidity == TopGet(top_features, "humidity_mean", 75).v
            temp_max == TopGet(top_features, "temp_max", 30).v
            precip_sum == TopGet(top_features, "precip_sum", 800).v
            high == humidity > 80 \/ precip_sum > 1000
            medium == ~high /\ temp_max > 30
        IN  /\ text[1] = "High" <=> high
            /\ text[1] = "Medium" <=> medium
            /\ text[1] = "Low" <=> (~high /\ ~medium)
            /\ (Lower(advisory.request.crop) = "rice" /\ high)
                => /\ Contains(text,
                        "Monitor for blast, brown spot, and stem borer. ")
                   /\ Contains(text,
                        "Use pheromone traps for stem borer control. ")
            /\ Len(text) >= 2
            /\ text[Len(text) - 1] = "Use integrated pest management: "
            /\ text[Len(text)] =
                  "biological control, resistant varieties, and targeted pesticide use."

\* C12 witness: humidity 90, temp_max 32, precip_sum 1200, crop rice: High,
\* with the three risk factors and the blast / stem borer guidance.
C12_Witness ==
    /\ advisory.state = "pest"
    /\ advisory.request.crop = "rice"
    /\ LET top_features == advisory.prediction_result.top_features
       IN  /\ TopGet(top_features, "humidity_mean", 75) = Num(90)
           /\ TopGet(top_features, "temp_max", 30) = Num(32)
           /\ TopGet(top_features, "precip_sum", 800) = Num(1200)
    /\ advisory.output[1] = "High"
    /\ Contains(advisory.output, "high temperature")
    /\ Contains(advisory.output,
                "Monitor for blast, brown spot, and stem borer. ")

\* The nitrogen target a fertilizer text states: the number following
\* "Increase nitrogen to ", if the text has it.
StatesIncreasedTarget(text, base) ==
    \E i \in 1..(Len(text) - 1) :
        /\ text[i] = "Low organic matter detected. Increase nitrogen to "
        /\ \E n \in (base + 1)..(base + 100) : text[i + 1] = ToString(n)

\* C13 (as claimed): for every crop and every other input, when soil pH is
\* below 6.0 the fertilizer text opens with the lime-application
\* recommendation and states a nitrogen target increased relative to the
\* N_recommended of the crop's base table.
C13_LowPhLimeAndMoreNitrogen ==
    (/\ DerivedBy("fertilizer")
     /\ ~FertilizerRaises(advisory.prediction_result)
     /\ TopGet(advisory.prediction_result.top_features, "soil_phh2o", 65).v
            < 60)
        =>
        LET text == TextOf("fertilizer")
            crop_rules ==
                RulesGet(FertilizerRules, Lower(advisory.request.crop))
        IN  /\ text[1] = "Soil pH is low ("
            /\ text[3] = "). Apply lime before fertilization. "
            /\ StatesIncreasedTarget(text, crop_rules.N_recommended)

\* What the code does for C13: a pH below 6.0 opens the text with the lime
\* recommendation, and the increased nitrogen target is stated exactly when
\* soil_soc is below 1.0, whatever the pH.
C13_LimeByPhNitrogenByOrganicMatter ==
    (DerivedBy("fertilizer") /\ ~FertilizerRaises(advisory.prediction_result))
        =>
        LET text == TextOf("fertilizer")
            top_features == advisory.prediction_result.top_features
            soil_ph == TopGet(top_features, "soil_phh2o", 65).v
            soil_organic == TopGet(top_features, "soil_soc", 15).v
            crop_rules ==
                RulesGet(FertilizerRules, Lower(advisory.request.crop))
        IN  /\ soil_ph < 60
                <=> (/\ text[1] = "Soil pH is low ("
                     /\ text[3] = "). Apply lime before fertilization. ")
            /\ soil_organic < 10
                <=> StatesIncreasedTarget(text, crop_rules.N_recommended)

\* The case of C13's scenario: pH 5.5 with the default organic carbon.
C13_LowPhDefaultOrganicCase ==
    /\ advisory.state = "fertilizer"
    /\ TopGet(advisory.prediction_result.top_features, "soil_phh2o", 65)
          = Num(55)
    /\ ~Contains(advisory.output,
                 "Low organic matter detected. Increase nitrogen to ")
    /\ advisory.output[1] = "Soil pH is low ("

\* The stages a split schedule lists.
StagesListed(schedule) ==
    IF schedule = "basal (50%), tillering (25%), panicle initiation (25%)."
    THEN 3
    ELSE IF schedule = "basal (60%), tillering/jointing (40%)."
    THEN 2
    ELSE 0

\* The fertilizer text ends "Split fertilizer application into ", N,
\* " doses: ", schedule.
SplitClause(text) ==
    [opening |-> text[Len(text) - 3], doses |-> text[Len(text) - 2],
     unit |-> text[Len(text) - 1], schedule |-> text[Len(text)]]

\* C30 (as claimed): in every fertilizer text that is not the fallback, for
\* every crop (rice, wheat, a crop served from the fallback table), the
\* number of doses announced equals the number of stages of the schedule
\* that follows, and rice gets the 50/25/25 schedule, every other crop the
\* 60/40 one.
C30_DosesMatchSchedule ==
    (DerivedBy("fertilizer") /\ ~FertilizerRaises(advisory.prediction_result))
        =>
        LET clause == SplitClause(TextOf("fertilizer"))
        IN  /\ clause.opening = "Split fertilizer application into "
            /\ clause.unit = " doses: "
            /\ clause.doses = ToString(StagesListed(clause.schedule))
            /\ StagesListed(clause.schedule) =
                  IF Lower(advisory.request.crop) = "rice" THEN 3 ELSE 2

\* What holds of C30: the schedule follows the crop (rice: three stages,
\* any other crop: two) while the number of doses is the split_applications
\* of the crop's table, which for a crop without a table is the one of rice;
\* the two agree for rice and wheat.
C30_DosesFromTableScheduleFromCrop ==
    (DerivedBy("fertilizer") /\ ~FertilizerRaises(advisory.prediction_result))
        =>
        LET clause == SplitClause(TextOf("fertilizer"))
            crop == Lower(advisory.request.crop)
        IN  /\ clause.opening = "Split fertilizer application into "
            /\ clause.unit = " doses: "
            /\ clause.doses =
                  ToString(RulesGet(FertilizerRules, crop).split_applications)
            /\ StagesListed(clause.schedule) = IF crop = "rice" THEN 3 ELSE 2
            /\ crop \in KnownCrops
                  => clause.doses = ToString(StagesListed(clause.schedule))

\* The case of C30: maize has no fertilizer table; its text announces 3
\* doses and lists basal (60%), tillering/jointing (40%).
C30_MaizeCase ==
    /\ advisory.state = "fertilizer"
    /\ advisory.request.crop = "maize"
    /\ Len(advisory.output) > 3
    /\ SplitClause(advisory.output).doses = "3"
    /\ SplitClause(advisory.output).schedule
          = "basal (60%), tillering/jointing (40%)."

\* C14: generate_general_advisory buckets the predicted yield with the
\* crop's thresholds (rice 2.0 / 3.5, wheat 1.5 / 2.5, rice for an unknown
\* crop): below low "below average" with the high-potential suggestions, from
\* low to below medium "average" with the medium ones, from medium "above
\* average" with the low ones.
C14_YieldBucket ==
    (DerivedBy("general") /\ ~GeneralRaises(advisory.prediction_result))
        =>
        LET text == TextOf("general")
            yield == advisory.prediction_result.predicted_yield.v
            wheat == Lower(advisory.request.crop) = "wheat"
            low == IF wheat THEN 150 ELSE 200
            medium == IF wheat THEN 250 ELSE 350
        IN  /\ yield < low
                => /\ text[2] = "below average"
                   /\ text[6] = "Significant improvement possible through: "
            /\ (low <= yield /\ yield < medium)
                => /\ text[2] = "average"
                   /\ text[6] = "Moderate improvement possible through: "
            /\ yield >= medium
                => /\ text[2] = "above average"
                   /\ text[6] = "Maintain current good practices. "

\* C14 witness: 1.2 t/ha for rice, reported below average with high
\* improvement potential.
C14_Witness ==
    /\ advisory.state = "general"
    /\ advisory.request.crop = "rice"
    /\ advisory.prediction_result.predicted_yield = Num(120)
    /\ advisory.output[2] = "below average"
    /\ advisory.output[6] = "Significant improvement possible through: "

\* C15: in a call of generate_advisory in which nothing raised, the bundle
\* has the 'disclaimer' entry exactly when confidence < 0.7 and the general
\* text has the low-confidence caveat exactly when confidence < 0.6.
C15_DisclaimerAndCaveat ==
    (/\ advisory.state = "returned"
     /\ ~BundleRaises(advisory.prediction_result)
     /\ ~GeneralRaises(advisory.prediction_result))
        =>
        LET confidence == advisory.prediction_result.confidence.v
            texts == advisory.output.advisory
        IN  /\ "disclaimer" \in DOMAIN texts <=> confidence < 700
            /\ "disclaimer" \in DOMAIN texts
                => texts["disclaimer"] = Disclaimer
            /\ Contains(texts.general, "Prediction confidence is moderate. ")
                <=> confidence < 600

\* C15 witness: a confidence in [0.6, 0.7): the disclaimer without the
\* caveat.
C15_Witness ==
    /\ advisory.state = "returned"
    /\ advisory.prediction_result.confidence = Num(600)
    /\ advisory.prediction_result.predicted_yield = Num(300)
    /\ "disclaimer" \in DOMAIN advisory.output.advisory
    /\ ~Contains(advisory.output.advisory.general,
                 "Prediction confidence is moderate. ")

----------------------------------------------------------------------------
(* Frames.  A frame is [cols |-> the column names in order, rows |-> the   *)
(* rows], a row a function from the column names to cells.  A numeric cell *)
(* holds hundredths (26 degrees = 2600, the flag 1 = 100, the code 1 =     *)
(* 100) or is NaN; a categorical cell holds a string.                      *)

Val(n) == [nan |-> FALSE, v |-> n]
NaN == [nan |-> TRUE, v |-> 0]
Str(s) == [nan |-> FALSE, v |-> s]

HasCol(df, c) == c \in Range(df.cols)
HasAll(df, S) == S \subseteq Range(df.cols)
Column(df, c) == [i \in 1..Len(df.rows) |-> df.rows[i][c]]

NotIn(k, S) == k \notin S

\* F applied to the value of v, with v computed once however often F uses it.
Then(v, F(_)) == CHOOSE out \in {F(x) : x \in {v}} : TRUE

\* df[name] = F(row, name) for the names in turn, each computed from the
\* columns df had before: a new column goes last, an existing one keeps its
\* place.
WithColumns(df, names, F(_, _)) ==
    CHOOSE out \in
        {[cols |-> d.cols \o SelectSeq(n, LAMBDA c : NotIn(c, Range(d.cols))),
          rows |-> [i \in 1..Len(d.rows) |->
                     [c \in Range(d.cols) \cup Range(n) |->
                        IF c \in Range(n) THEN F(d.rows[i], c)
                        ELSE d.rows[i][c]]]]
            : d \in {df}, n \in {names}} : TRUE

WithDerived(df, name, F(_)) == WithColumns(df, <<name>>, LAMBDA r, c : F(r))

\* X[names]
SelectColumns(df, names) ==
    CHOOSE out \in
        {[cols |-> n,
          rows |-> [i \in 1..Len(d.rows) |->
                     [c \in Range(n) |-> d.rows[i][c]]]]
            : d \in {df}, n \in {names}} : TRUE

\* X.drop(columns=[col for col in S if col in X.columns])
DropColumns(df, S) ==
    SelectColumns(df, SelectSeq(df.cols, LAMBDA c : NotIn(c, S)))

\* Cell arithmetic of numpy: NaN propagates through + - * /, a comparison
\* with NaN is false, so np.where(cond, x, 0) gives 0 on NaN.
Sub(a, b) == IF a.nan \/ b.nan THEN NaN ELSE Val(a.v - b.v)
Mul(a, b) == IF a.nan \/ b.nan THEN NaN ELSE Val((a.v * b.v) \div 100)
\* a / (b + 1e-6): the 1e-6 only matters when b is 0.
DivEps(a, b) ==
    IF a.nan \/ b.nan THEN NaN
    ELSE IF b.v = 0 THEN Val(a.v * 1000000)
    ELSE Val((a.v * 100) \div b.v)
Abs(a) == IF a.nan THEN NaN ELSE Val(IF a.v < 0 THEN 0 - a.v ELSE a.v)
\* np.where(c > t, c - t, 0) and np.where(c < t, t - c, 0)
Excess(c, t) == IF ~c.nan /\ c.v > t THEN Val(c.v - t) ELSE Val(0)
Deficit(c, t) == IF ~c.nan /\ c.v < t THEN Val(t - c.v) ELSE Val(0)
Flag(b) == Val(IF b THEN 100 ELSE 0)
Between(c, lo, hi) == Flag(~c.nan /\ c.v >= lo /\ c.v <= hi)

----------------------------------------------------------------------------
(* FeatureEngineer: the feature creators *)

IfCols(df, needed, names) == IF HasAll(df, needed) THEN names ELSE <<>>

WeatherFeature(r, name) ==
    CASE name = "temp_range" -> Sub(r["temp_max"], r["temp_min"])
      [] name = "temp_stress" -> Excess(r["temp_max"], 3500)
      [] name = "temp_cold_stress" -> Deficit(r["temp_min"], 1500)
      [] name = "precip_intensity" ->
            DivEps(r["precip_sum"], r["precip_mean"])
      [] name = "drought_stress" -> Deficit(r["precip_sum"], 50000)
      [] name = "flood_risk" -> Excess(r["precip_sum"], 150000)
      [] name = "humidity_stress" -> Excess(r["humidity_mean"], 8500)
      [] name = "solar_deficit" -> Deficit(r["solar_mean"], 1500)
      [] name = "gdd_optimal" -> Between(r["gdd"], 200000, 300000)
      [] name = "gdd_deficit" -> Deficit(r["gdd"], 200000)
      [] name = "gdd_excess" -> Excess(r["gdd"], 300000)

CreateWeatherFeatures(df) ==
    WithColumns(df,
        IfCols(df, {"temp_mean", "temp_max", "temp_min"},
               <<"temp_range", "temp_stress", "temp_cold_stress">>)
        \o IfCols(df, {"precip_sum", "precip_mean"},
               <<"precip_intensity", "drought_stress", "flood_risk">>)
        \o IfCols(df, {"humidity_mean"}, <<"humidity_stress">>)
        \o IfCols(df, {"solar_mean"}, <<"solar_deficit">>)
        \o IfCols(df, {"gdd"}, <<"gdd_optimal", "gdd_deficit", "gdd_excess">>),
        WeatherFeature)

\* clay * 0.3 + silt * 0.5 + sand * 0.2
TextureScore(r) ==
    IF r["soil_clay"].nan \/ r["soil_silt"].nan \/ r["soil_sand"].nan
    THEN NaN
    ELSE Val((3 * r["soil_clay"].v + 5 * r["soil_silt"].v
                + 2 * r["soil_sand"].v) \div 10)

SoilFeature(r, name) ==
    CASE name = "clay_sand_ratio" -> DivEps(r["soil_clay"], r["soil_sand"])
      [] name = "silt_clay_ratio" -> DivEps(r["soil_silt"], r["soil_clay"])
      [] name = "soil_texture_score" -> TextureScore(r)
      [] name = "soil_ph_optimal" -> Between(r["soil_phh2o"], 600, 700)
      [] name = "soil_ph_stress" -> Abs(Sub(r["soil_phh2o"], Val(650)))
      [] name = "soil_organic_high" ->
            Flag(~r["soil_soc"].nan /\ r["soil_soc"].v > 200)
      [] name = "soil_organic_low" ->
            Flag(~r["soil_soc"].nan /\ r["soil_soc"].v < 100)
      [] name = "nutrient_availability" ->
            Mul(r["soil_cec"], Sub(Val(100), r["soil_ph_stress"]))

CreateSoilFeatures(df) ==
    Then(WithColumns(df,
            IfCols(df, {"soil_clay", "soil_sand", "soil_silt"},
                   <<"clay_sand_ratio", "silt_clay_ratio",
                     "soil_texture_score">>)
            \o IfCols(df, {"soil_phh2o"},
                   <<"soil_ph_optimal", "soil_ph_stress">>)
            \o IfCols(df, {"soil_soc"},
                   <<"soil_organic_high", "soil_organic_low">>),
            SoilFeature),
         LAMBDA fertility :
            WithColumns(fertility,
                IfCols(fertility, {"soil_cec", "soil_phh2o"},
                       <<"nutrient_availability">>),
                SoilFeature))

\* sin(2 * pi * year / 3) and sin(2 * pi * year / 5), in hundredths, by the
\* residue of the (whole) year.
YearCycle3 == <<0, 87, -87>>
YearCycle5 == <<0, 95, 59, -59, -95>>

SetMin(S) == CHOOSE x \in S : \A y \in S : x <= y
SetMax(S) == CHOOSE x \in S : \A y \in S : x >= y

\* (year - min) / (max - min): 0 / 0 = NaN when the frame holds one year only.
YearNormalized(year, lo, hi) ==
    IF hi = lo THEN NaN ELSE Val(((year - lo) * 100) \div (hi - lo))

CreateTemporalFeatures(df) ==
    IF HasCol(df, "year") /\ Len(df.rows) > 0
    THEN Then({df.rows[i]["year"].v : i \in 1..Len(df.rows)},
            LAMBDA years :
              WithColumns(df,
                <<"year_normalized", "year_cycle_3", "year_cycle_5">>,
                LAMBDA r, name :
                    CASE name = "year_normalized" ->
                            YearNormalized(r["year"].v, SetMin(years),
                                           SetMax(years))
                      [] name = "year_cycle_3" ->
                            Val(YearCycle3[((r["year"].v \div 100) % 3) + 1])
                      [] name = "year_cycle_5" ->
                            Val(YearCycle5[((r["year"].v \div 100) % 5) + 1])))
    ELSE df

\* The column names that contain 'stress'.
StressNames ==
    {"temp_stress", "temp_cold_stress", "drought_stress", "humidity_stress",
     "soil_ph_stress", "total_stress"}

\* df[stress_cols].sum(axis=1): NaN cells are skipped.
RECURSIVE SumCells(_, _)
SumCells(r, names) ==
    IF names = <<>> THEN 0
    ELSE (IF r[Head(names)].nan THEN 0 ELSE r[Head(names)].v)
            + SumCells(r, Tail(names))

\* Val(1) is 0.01: the division by 100 of water_retention.
InteractionFeature(r, name) ==
    CASE name = "water_retention" ->
            Mul(Mul(r["precip_sum"], r["soil_clay"]), Val(1))
      [] name = "temp_organic_interaction" ->
            Mul(r["temp_mean"], r["soil_soc"])
      [] name = "gdd_ph_interaction" -> Mul(r["gdd"], r["soil_ph_optimal"])

CreateInteractionFeatures(df) ==
    Then(WithColumns(df,
            IfCols(df, {"precip_sum", "soil_clay"}, <<"water_retention">>)
            \o IfCols(df, {"temp_mean", "soil_soc"},
                   <<"temp_organic_interaction">>)
            \o IfCols(df, {"gdd", "soil_ph_optimal"},
                   <<"gdd_ph_interaction">>),
            InteractionFeature),
         LAMBDA interactions :
            Then(Restrict(interactions.cols, StressNames),
                 LAMBDA stress_cols :
                    IF Len(stress_cols) > 1
                    THEN WithColumns(interactions, <<"total_stress">>,
                            LAMBDA r, name : Val(SumCells(r, stress_cols)))
                    ELSE interactions))

----------------------------------------------------------------------------
(* FeatureEngineer: label encoding *)

CategoricalCols == <<"state", "district", "crop">>
EncodedName ==
    [state |-> "state_encoded", district |-> "district_encoded",
     crop |-> "crop_encoded"]

\* Every category string of the model, in the order Python sorts strings
\* (by code point: capitals before small letters).
LexOrder ==
    <<"Cuttack", "Ernakulam", "Kerala", "Odisha", "Punjab", "Puri", "Rice",
      "Wheat", "rice">>

\* LabelEncoder.fit: classes_ is the sorted array of the distinct labels.
Classes(labels) == Restrict(LexOrder, labels)

IndexOf(seq, x) == CHOOSE i \in 1..Len(seq) : seq[i] = x

\* LabelEncoder.transform of a known label: its position in classes_.
Transform(classes, label) == Val(100 * (IndexOf(classes, label) - 1))

LastClass(classes) == classes[Len(classes)]

\* most_frequent = self.encoders[col].classes_[0]
MostFrequent(classes) == classes[1]

Labels(df, col) == {df.rows[i][col].v : i \in 1..Len(df.rows)}

\* classes_[0] of an encoder fitted on no label raises IndexError.
EncodeColumnRaises(enc, df, col, fit) ==
    /\ HasCol(df, col)
    /\ ~fit
    /\ col \in DOMAIN enc
    /\ ~(Labels(df, col) \subseteq Range(enc[col]))
    /\ enc[col] = <<>>

\* encoders[col].transform(df[col]) into the column {col}_encoded.
WithEncoded(df, col, classes) ==
    WithDerived(df, EncodedName[col], LAMBDA r : Transform(classes, r[col].v))

\* One turn of the loop with an encoder that is refitted on every call, at
\* serve time on the classes it has and the labels it meets.
EncodeColumnLearning(enc, df, col, fit) ==
    IF ~HasCol(df, col) THEN [df |-> df, encoders |-> enc]
    ELSE Then(Classes(Labels(df, col)
                \cup (IF ~fit /\ col \in DOMAIN enc THEN Range(enc[col])
                      ELSE {})),
            LAMBDA classes :
                [df |-> WithEncoded(df, col, classes),
                 encoders |-> (col :> classes) @@ enc])

\* One turn of the loop of encode_categorical_features.
EncodeColumn(enc, df, col, fit) ==
    IF ~HasCol(df, col) THEN [df |-> df, encoders |-> enc]
    ELSE IF fit
    THEN Then(Classes(Labels(df, col)),
            LAMBDA classes :
                [df |-> WithEncoded(df, col, classes),
                 encoders |-> (col :> classes) @@ enc])
    ELSE IF col \notin DOMAIN enc THEN [df |-> df, encoders |-> enc]
    ELSE IF Labels(df, col) \subseteq Range(enc[col])
    THEN [df |-> WithEncoded(df, col, enc[col]), encoders |-> enc]
    ELSE Then(WithDerived(df, col,
                LAMBDA r : IF r[col].v \in Range(enc[col]) THEN r[col]
                           ELSE Str(MostFrequent(enc[col]))),
            LAMBDA replaced :
                [df |-> WithEncoded(replaced, col, enc[col]),
                 encoders |-> enc])

RECURSIVE EncodeColumns(_, _, _, _)
EncodeColumns(enc, df, cols, fit) ==
    IF cols = <<>> THEN [df |-> df, encoders |-> enc, raises |-> "none"]
    ELSE IF EncodeColumnRaises(enc, df, Head(cols), fit)
    THEN [df |-> df, encoders |-> enc, raises |-> "IndexError"]
    ELSE Then(EncodeColumn(enc, df, Head(cols), fit),
            LAMBDA step :
                EncodeColumns(step.encoders, step.df, Tail(cols), fit))

EncodeCategoricalFeatures(enc, df, fit) ==
    EncodeColumns(enc, df, CategoricalCols, fit)

----------------------------------------------------------------------------
(* FeatureEngineer: selection, scaling, the pipeline *)

NonFeatureCols ==
    {"year", "state", "district", "crop", "area_ha", "production_tonnes"}

\* engineer_features: the frame, the encoders and feature_names after it.
EngineerFeatures(enc, names, df, fit) ==
    Then(CreateWeatherFeatures(df), LAMBDA weather :
    Then(CreateSoilFeatures(weather), LAMBDA soil :
    Then(CreateTemporalFeatures(soil), LAMBDA temporal :
    Then(CreateInteractionFeatures(temporal), LAMBDA created :
    Then(EncodeCategoricalFeatures(enc, created, fit), LAMBDA encoded :
        [df |-> encoded.df,
         encoders |-> encoded.encoders,
         raises |-> encoded.raises,
         feature_names |->
            IF fit
            THEN SelectSeq(encoded.df.cols,
                    LAMBDA c : NotIn(c, NonFeatureCols \cup {"yield_t_ha"}))
            ELSE names])))))

\* SelectKBest keeps the k columns of highest F-score against the target and
\* get_support keeps their order.  Which columns score lowest depends on the
\* data: the choice is open among the names of DropPool.
SelectK == 50
DropPool ==
    {"precip_sum_missing", "precip_mean_missing", "temp_mean_missing",
     "temp_max_missing", "temp_min_missing", "humidity_mean_missing",
     "solar_mean_missing", "year_normalized"}
DropChoices(numeric_cols) ==
    {D \in SUBSET DropPool :
        /\ D \subseteq Range(numeric_cols)
        /\ Cardinality(D) = Len(numeric_cols) - Min(SelectK, Len(numeric_cols))}
SelectFeatures(numeric_cols, dropped) ==
    SelectSeq(numeric_cols, LAMBDA c : NotIn(c, dropped))

\* The values of the cells that are not NaN.
RECURSIVE PresentValues(_)
PresentValues(cells) ==
    IF cells = <<>> THEN <<>>
    ELSE (IF Head(cells).nan THEN <<>> ELSE <<Head(cells).v>>)
            \o PresentValues(Tail(cells))

\* Series.median(): NaN cells are skipped; NaN when none is left.
Median(cells) ==
    Then(SortSeq(PresentValues(cells), LAMBDA a, b : a < b),
         LAMBDA sorted :
            IF Len(sorted) = 0 THEN NaN
            ELSE IF Len(sorted) % 2 = 1
            THEN Val(sorted[(Len(sorted) + 1) \div 2])
            ELSE Val((sorted[Len(sorted) \div 2]
                        + sorted[(Len(sorted) \div 2) + 1]) \div 2))

\* X.fillna(X.median())
FillNa(X) ==
    Then([c \in Range(X.cols) |-> Median(Column(X, c))],
         LAMBDA median :
            [cols |-> X.cols,
             rows |-> [i \in 1..Len(X.rows) |->
                        [c \in Range(X.cols) |->
                            IF X.rows[i][c].nan THEN median[c]
                            ELSE X.rows[i][c]]]])

\* Series.nunique(): NaN is not counted.
NUnique(cells) ==
    Cardinality({cells[i].v : i \in {j \in 1..Len(cells) : ~cells[j].nan}})

\* The names ending in _encoded, _optimal, _high or _low.
UnscaledSuffix ==
    {"state_encoded", "district_encoded", "crop_encoded", "gdd_optimal",
     "soil_ph_optimal", "soil_organic_high", "soil_organic_low"}

ColsToScale(X) ==
    SelectSeq(X.cols,
        LAMBDA c : c \notin UnscaledSuffix /\ NUnique(Column(X, c)) > 2)

RECURSIVE SumSeq(_)
SumSeq(s) == IF s = <<>> THEN 0 ELSE Head(s) + SumSeq(Tail(s))

RECURSIVE SqrtSearch(_, _, _)
SqrtSearch(n, lo, hi) ==
    IF lo >= hi THEN lo
    ELSE LET mid == (lo + hi + 1) \div 2
         IN  IF mid * mid <= n THEN SqrtSearch(n, mid, hi)
             ELSE SqrtSearch(n, lo, mid - 1)
ISqrt(n) == SqrtSearch(n, 0, Min(n, 46340))

\* StandardScaler.fit on the cells that are not NaN: mean_ and var_ (the
\* population variance), both in hundredths.
ScalerFit(cells) ==
    Then(PresentValues(cells), LAMBDA vals :
    Then(SumSeq(vals) \div Len(vals), LAMBDA mean :
        [mean_ |-> mean,
         var_ |-> SumSeq([i \in 1..Len(vals) |->
                            ((vals[i] - mean) * (vals[i] - mean)) \div 100])
                    \div Len(vals)]))

\* StandardScaler.transform: (x - mean_) / scale_, scale_ = sqrt(var_), or 1
\* when the variance is 0.
ScalerTransform(scaler, cell) ==
    LET root == ISqrt(scaler.var_ * 100)
        scale == IF root = 0 THEN 100 ELSE root
    IN  IF cell.nan THEN NaN
        ELSE Val(((cell.v - scaler.mean_) * 100) \div scale)

\* scale_features: at fit time every column to scale gets a scaler fitted on
\* it; at serve time a column to scale is transformed when it has a scaler.
ScaleFeatures(sc, X, fit) ==
    Then(Range(ColsToScale(X)), LAMBDA cols_to_scale :
    Then(IF fit
         THEN [c \in cols_to_scale |-> ScalerFit(Column(X, c))] @@ sc
         ELSE sc, LAMBDA after :
        [scalers |-> after,
         X |-> [cols |-> X.cols,
                rows |-> [i \in 1..Len(X.rows) |->
                            [c \in Range(X.cols) |->
                                IF c \in cols_to_scale /\ c \in DOMAIN after
                                THEN ScalerTransform(after[c], X.rows[i][c])
                                ELSE X.rows[i][c]]]]]))

\* prepare_features.  engineer is [scalers, encoders, feature_names,
\* selected_features]; dropped is the outcome of SelectKBest and matters at
\* fit time only.  The result carries the engineer after the call, the
\* columns computed before the selection, the frame as it is before the
\* final fillna, and X.
PrepareFeatures(engineer, df, fit, feature_selection, dropped) ==
    Then(EngineerFeatures(engineer.encoders, engineer.feature_names, df, fit),
         LAMBDA eng :
    Then(DropColumns(eng.df, NonFeatureCols \cup {"yield_t_ha"}),
         LAMBDA computed :
    Then(IF fit /\ feature_selection /\ HasCol(eng.df, "yield_t_ha")
         THEN SelectFeatures(computed.cols, dropped)
         ELSE engineer.selected_features,
         LAMBDA selected :
    Then(IF fit /\ feature_selection /\ HasCol(eng.df, "yield_t_ha")
         THEN SelectColumns(computed, selected)
         ELSE IF ~fit /\ engineer.selected_features # <<>>
         THEN SelectColumns(computed,
                Restrict(engineer.selected_features, Range(computed.cols)))
         ELSE computed,
         LAMBDA chosen :
    Then(ScaleFeatures(engineer.scalers, chosen, fit),
         LAMBDA scaled :
        [raises |-> eng.raises,
         computed |-> computed.cols,
         before_fill |-> scaled.X,
         X |-> FillNa(scaled.X),
         scalers |-> scaled.scalers,
         encoders |-> eng.encoders,
         feature_names |-> eng.feature_names,
         selected_features |-> selected])))))

----------------------------------------------------------------------------
(* The frames the FeatureEngineer is fed *)

WeatherOrder == Append(WeatherAggregates, "gdd")
LagOrder ==
    <<"yield_lag1", "yield_lag2", "yield_lag3", "yield_lag3_mean",
      "yield_trend">>
\* create_feature_flags: one {col}_missing per weather column.
FlagOrder ==
    <<"precip_sum_missing", "precip_mean_missing", "temp_mean_missing",
      "temp_max_missing", "temp_min_missing", "humidity_mean_missing",
      "solar_mean_missing", "gdd_missing">>

\* for key, value in values.items(): df[key] = value, for the keys given.
Update(df, keys, values) == WithColumns(df, keys, LAMBDA r, c : values[c])

\* The same, for the keys that are not columns yet.
SetDefaults(df, keys, values) ==
    WithColumns(df, SelectSeq(keys, LAMBDA c : NotIn(c, Range(df.cols))),
                LAMBDA r, c : values[c])

WeatherDefaults ==
    [precip_sum |-> Val(80000), precip_mean |-> Val(450),
     temp_mean |-> Val(2600), temp_max |-> Val(3200), temp_min |-> Val(2000),
     humidity_mean |-> Val(7500), solar_mean |-> Val(1800),
     gdd |-> Val(250000)]
SoilDefaults ==
    [soil_phh2o |-> Val(650), soil_soc |-> Val(150), soil_clay |-> Val(2500),
     soil_sand |-> Val(4500), soil_silt |-> Val(3000), soil_cec |-> Val(1500),
     soil_nitrogen |-> Val(15)]
LagDefaults ==
    [yield_lag1 |-> Val(300), yield_lag2 |-> Val(290),
     yield_lag3 |-> Val(310), yield_lag3_mean |-> Val(300),
     yield_trend |-> Val(5)]

\* What the two services answer for the fields they do answer.
FetchedWeather ==
    [precip_sum |-> Val(120000), precip_mean |-> Val(656),
     temp_mean |-> Val(2750), temp_max |-> Val(3600), temp_min |-> Val(1400),
     humidity_mean |-> Val(8800), solar_mean |-> Val(1400),
     gdd |-> Val(320000)]
FetchedSoil ==
    [soil_phh2o |-> Val(580), soil_soc |-> Val(250), soil_clay |-> Val(3000),
     soil_sand |-> Val(4000), soil_silt |-> Val(3000), soil_cec |-> Val(1200),
     soil_nitrogen |-> Val(20)]

\* farmer_inputs.dict(exclude_none=True), mapped to feature names.
FarmerFeatures ==
    <<"area_ha", "fertilizer_N", "fertilizer_P", "fertilizer_K",
      "irrigation_freq">>
FarmerField ==
    [area_ha |-> "area_ha", fertilizer_N |-> "fertilizer_N_kg",
     fertilizer_P |-> "fertilizer_P_kg", fertilizer_K |-> "fertilizer_K_kg",
     irrigation_freq |-> "irrigation_events"]

AddFarmerInputs(df, farmer_inputs) ==
    WithColumns(df,
        SelectSeq(FarmerFeatures,
            LAMBDA c : IsIn(FarmerField[c], farmer_inputs.supplied)),
        LAMBDA r, c : Val(100 * farmer_inputs.values[FarmerField[c]]))

BaseData(request) ==
    [cols |-> <<"year", "state", "district", "crop", "area_ha",
                "production_tonnes">>,
     rows |-> <<[year |-> Val(100 * request.year),
                 state |-> Str(request.state),
                 district |-> Str(request.district),
                 crop |-> Str(request.crop),
                 area_ha |-> Val(100),
                 production_tonnes |-> Val(0)]>>]

CreateInputDataframe(request, external_data) ==
    Then(Update(BaseData(request), external_data.weather, FetchedWeather),
         LAMBDA with_weather :
    Then(Update(with_weather, external_data.soil, FetchedSoil),
         LAMBDA with_soil :
        IF request.farmer_inputs.given
        THEN AddFarmerInputs(with_soil, request.farmer_inputs)
        ELSE with_soil))

AddDefaultFeatures(df) ==
    Then(SetDefaults(df, WeatherOrder, WeatherDefaults), LAMBDA with_weather :
    Then(SetDefaults(with_weather, SoilOrder, SoilDefaults),
         LAMBDA with_soil :
        SetDefaults(with_soil, LagOrder, LagDefaults)))

\* Rows of the training set.
NumTrainRows == 4

\* The processed dataset of DataPreprocessor.process_dataset: the crop file's
\* columns, the weather aggregates of the row's year, the soil properties (one
\* value for all rows), the lag features and the flags; sorted by year.
TrainValues(i) ==
    [year |-> Val(100 * (2019 + i)),
     state |-> Str(IF i % 2 = 1 THEN "Odisha" ELSE "Punjab"),
     district |-> Str(IF i % 2 = 1 THEN "Cuttack" ELSE "Puri"),
     crop |-> Str(IF i % 2 = 1 THEN "Rice" ELSE "Wheat"),
     area_ha |-> Val(100 * (10 + i)),
     production_tonnes |-> Val((10 + i) * (300 + 10 * i)),
     fertilizer_N |-> Val(100 * (100 + 10 * i)),
     yield_t_ha |-> Val(300 + 10 * i),
     precip_sum |-> Val(80000 + 5000 * i),
     precip_mean |-> Val(450 + 20 * i),
     temp_mean |-> Val(2600 + 10 * i),
     temp_max |-> Val(3200 + 100 * i),
     temp_min |-> Val(2000 - 150 * i),
     humidity_mean |-> Val(7500 + 300 * i),
     solar_mean |-> Val(1800 - 100 * i),
     gdd |-> Val(250000 + 1000 * i),
     soil_phh2o |-> Val(650), soil_soc |-> Val(150),
     soil_clay |-> Val(2500), soil_sand |-> Val(4500),
     soil_silt |-> Val(3000), soil_cec |-> Val(1500),
     soil_nitrogen |-> Val(15),
     yield_lag1 |-> Val(290 + 10 * i), yield_lag2 |-> Val(280 + 10 * i),
     yield_lag3 |-> Val(270 + 10 * i),
     yield_lag3_mean |-> Val(280 + 10 * i), yield_trend |-> Val(10),
     precip_sum_missing |-> Val(0), precip_mean_missing |-> Val(0),
     temp_mean_missing |-> Val(0), temp_max_missing |-> Val(0),
     temp_min_missing |-> Val(0), humidity_mean_missing |-> Val(0),
     solar_mean_missing |-> Val(0), gdd_missing |-> Val(0)]

\* The crop file may carry the farmers' nitrogen dose as one more column.
TrainingFrame(with_fertilizer) ==
    LET cols ==
            <<"year", "state", "district", "crop", "area_ha",
              "production_tonnes">>
                \o (IF with_fertilizer THEN <<"fertilizer_N">> ELSE <<>>)
                \o <<"yield_t_ha">> \o WeatherOrder \o SoilOrder
                \o LagOrder \o FlagOrder
    IN  [cols |-> cols,
         rows |-> [i \in 1..NumTrainRows |->
                    [c \in Range(cols) |-> TrainValues(i)[c]]]]

TrainingSets == {TrainingFrame(FALSE), TrainingFrame(TRUE)}

ServeYears == {2024}
\* The soil maps of the serve-time requests: nothing, one property, two, all.
ServeSoilMaps ==
    {<<>>, <<"soil_phh2o">>, <<"soil_soc", "soil_clay">>, SoilOrder}
ServeRequests ==
    [year : ServeYears, state : {"Punjab", "Kerala"},
     district : {"Puri", "Ernakulam"}, crop : {"Wheat", "rice"},
     farmer_inputs : {NoFarmerInputs, SomeFarmerInputs}]

----------------------------------------------------------------------------
(* FeatureEngineer: the calls *)

Engineer ==
    [scalers |-> scalers, encoders |-> encoders,
     feature_names |-> feature_names,
     selected_features |-> selected_features]

\* ModelTrainer.prepare_data: prepare_features(df, fit=True) on a fresh
\* FeatureEngineer.
Fit ==
    /\ transformed = NoFrame
    /\ feature_names = <<>>
    /\ \E df \in TrainingSets :
       \E numeric_cols \in
            {PrepareFeatures(Engineer, df, TRUE, TRUE, {}).computed} :
       \E dropped \in DropChoices(numeric_cols) :
       \E out \in {PrepareFeatures(Engineer, df, TRUE, TRUE, dropped)} :
          /\ scalers' = out.scalers
          /\ encoders' = out.encoders
          /\ feature_names' = out.feature_names
          /\ selected_features' = out.selected_features
          /\ transformed' =
               [state |-> "fitted", raises |-> out.raises,
                computed |-> out.computed, X |-> out.X]
    /\ UNCHANGED <<apiVars, confVars, advVars, svcVars>>

\* The feature part of PredictionService.predict: create_input_dataframe,
\* add_default_features, prepare_features(fit=False, feature_selection=False).
ServeFeatures(engineer, request, external_data) ==
    Then(CreateInputDataframe(request, external_data), LAMBDA input_df :
    Then(AddDefaultFeatures(input_df), LAMBDA with_defaults :
        PrepareFeatures(engineer, with_defaults, FALSE, FALSE, {})))

ServeTransform ==
    /\ transformed = NoFrame
    /\ \E request \in ServeRequests, weather \in WeatherMaps,
          soil \in ServeSoilMaps :
       \E out \in {ServeFeatures(Engineer, request,
                                 [weather |-> weather, soil |-> soil])} :
          /\ scalers' = out.scalers
          /\ encoders' = out.encoders
          /\ feature_names' = out.feature_names
          /\ selected_features' = out.selected_features
          /\ transformed' =
               [state |-> "served", request |-> request,
                external_data |-> [weather |-> weather, soil |-> soil],
                raises |-> out.raises, computed |-> out.computed,
                X |-> out.X]
    /\ UNCHANGED <<apiVars, confVars, advVars, svcVars>>

\* encode_categorical_features(df, fit=False) on the frame of one request.
EncodeCategorical ==
    /\ transformed = NoFrame
    /\ \E request \in ServeRequests :
       \E out \in {EncodeCategoricalFeatures(encoders,
                        CreateInputDataframe(request,
                            [weather |-> <<>>, soil |-> <<>>]),
                        FALSE)} :
          /\ encoders' = out.encoders
          /\ transformed' =
               [state |-> "encoded", request |-> request,
                raises |-> out.raises, df |-> out.df]
    /\ UNCHANGED <<apiVars, scalers, feature_names, selected_features,
                   confVars,
                   advVars, svcVars>>

\* The caller takes the frame.
ReturnFrame ==
    /\ transformed # NoFrame
    /\ transformed' = NoFrame
    /\ UNCHANGED <<apiVars, scalers, encoders, feature_names,
                   selected_features,
                   confVars, advVars, svcVars>>

InitFE ==
    /\ result = NoResult
    /\ InitEngineer
    /\ advisory = NoAdvisory
    /\ InitServices
    /\ InitApi

NextFE ==
    \/ Fit
    \/ ServeTransform
    \/ EncodeCategorical
    \/ ReturnFrame

SpecFE == InitFE /\ [][NextFE]_vars

----------------------------------------------------------------------------
(* FeatureEngineer: properties *)

Served == transformed.state = "served"
Fitted == selected_features # <<>>

\* The columns of the feature vector the engineer, as it stands, returns for
\* a request and the maps fetched for it.
ServeColumns(request, weather, soil) ==
    ServeFeatures(Engineer, request,
                  [weather |-> weather, soil |-> soil]).X.cols

\* C5: with the engineer as it stands, the same request with any other
\* farmer inputs, and any other weather and soil fields fetched for it, gets
\* a feature vector with the column names of the vector just returned, in
\* the same order.
C5_SameColumnsAcrossRequests ==
    Served =>
        \A weather \in WeatherMaps : \A soil \in ServeSoilMaps :
            \A farmer_inputs \in {NoFarmerInputs, SomeFarmerInputs} :
                ServeColumns(
                    [transformed.request
                        EXCEPT !.farmer_inputs = farmer_inputs],
                    weather, soil) = transformed.X.cols

NoNaNCell(X) ==
    \A i \in 1..Len(X.rows) : \A c \in Range(X.cols) : ~X.rows[i][c].nan

\* C6: the feature vector of a request whose weather and soil maps are both
\* empty has no NaN cell and, once the engineer is fitted, exactly the names
\* frozen in selected_features.
C6_EmptyFamiliesFilled ==
    (/\ Served
     /\ transformed.external_data.weather = <<>>
     /\ transformed.external_data.soil = <<>>)
        => /\ NoNaNCell(transformed.X)
           /\ Fitted => transformed.X.cols = selected_features

Encoded == transformed.state = "encoded"

Unseen(col) ==
    /\ col \in DOMAIN encoders
    /\ transformed.request[col] \notin Range(encoders[col])

C8_SchemaMismatchRaised ==
    (/\ Served
     /\ \E name \in Range(selected_features) :
            name \notin Range(transformed.computed))
        => transformed.raises = "SchemaMismatch"

\* The feature vector of the request just served as it is before
\* scale_features: the one an engineer without any scaler returns.
Unscaled ==
    ServeFeatures([Engineer EXCEPT !.scalers = [c \in {} |-> 0]],
                  transformed.request, transformed.external_data).X

\* C23 (as claimed): in the vector returned for a serve-time record, every
\* feature that has a scaler fitted at fit time carries the value the frozen
\* scaler gives it, (x - mean_) / scale_ with scale_ = 1 when the learned
\* variance is zero, whatever the record.
C23_FrozenScalerApplied ==
    Served =>
        \A c \in Range(transformed.X.cols) \cap DOMAIN scalers :
            transformed.X.rows[1][c]
                = ScalerTransform(scalers[c], Unscaled.rows[1][c])

\* What holds of C23: scale_features decides again, on the frame it is
\* given, which columns to scale, and leaves out every column with at most
\* two distinct values; the frame of a request has one row, so no column is
\* scaled at serve time and the vector is the unscaled one.
C23_ServeRecordNotScaled ==
    Served =>
        /\ ColsToScale(transformed.X) = <<>>
        /\ transformed.X = Unscaled

\* The case of C23: a fitted engineer holds a scaler for precip_sum, and the
\* served vector carries the fetched 1200 mm as it is, not its z-score.
C23_FittedScalerUnused ==
    /\ Served
    /\ "precip_sum" \in DOMAIN scalers
    /\ "precip_sum" \in Range(transformed.X.cols)
    /\ transformed.X.rows[1]["precip_sum"] = Val(120000)
    /\ ScalerTransform(scalers["precip_sum"], Val(120000)) # Val(120000)

\* The name of the flag create_feature_flags gives a column.
FlagName(col) == col \o "_missing"

ExternalFields == Range(WeatherOrder) \cup Range(SoilOrder)

\* C26 (as claimed): for every weather and every soil field, the features
\* computed for a record, at fit time and at serve time, include its flag
\* {field}_missing, and in the vector of a served request the flag is 1 when
\* the field was not fetched (its value is the default) and 0 when it was.
C26_FlagPerExternalField ==
    /\ transformed.state = "fitted" =>
          \A field \in ExternalFields :
              FlagName(field) \in Range(transformed.computed)
    /\ Served =>
          \A field \in ExternalFields :
              /\ FlagName(field) \in Range(transformed.computed)
              /\ FlagName(field) \in Range(transformed.X.cols) =>
                    transformed.X.rows[1][FlagName(field)] =
                        IF field \in Range(transformed.external_data.weather)
                                        \cup Range(transformed.external_data.soil)
                        THEN Val(0) ELSE Val(100)

\* What holds of C26: the fit-time dataset carries one flag per weather
\* column (create_feature_flags) and none for a soil property; nothing
\* computed for a served request is a flag, fetched or defaulted.
C26_WeatherFlagsAtFitOnly ==
    /\ transformed.state = "fitted" =>
          /\ \A field \in Range(WeatherOrder) :
                FlagName(field) \in Range(transformed.computed)
          /\ \A field \in Range(SoilOrder) :
                FlagName(field) \notin Range(transformed.computed)
    /\ Served =>
          \A field \in ExternalFields :
              FlagName(field) \notin Range(transformed.computed)

\* The case of C26: an engineer whose selected features include a flag
\* serves a request for which no weather field was fetched: the eight
\* defaults are in the vector, no flag is.
C26_DefaultedWithoutFlag ==
    /\ Served
    /\ "gdd_missing" \in Range(selected_features)
    /\ transformed.external_data.weather = <<>>
    /\ "gdd" \in Range(transformed.X.cols)
    /\ transformed.X.rows[1]["gdd"] = WeatherDefaults["gdd"]
    /\ "gdd_missing" \notin Range(transformed.computed)

\* The frame of the request just served as it reaches the final fillna.
BeforeFill ==
    ServeFeatures(Engineer, transformed.request,
                  transformed.external_data).before_fill

\* The frames prepare_features(fit=True) returns for the training sets, and
\* the medians of a feature in them.
FitFrames ==
    {PrepareFeatures([scalers |-> [c \in {} |-> 0],
                      encoders |-> [c \in {} |-> <<>>],
                      feature_names |-> <<>>, selected_features |-> <<>>],
                     df, TRUE, TRUE, {}).X : df \in TrainingSets}

FitTimeMedians(c) ==
    {Median(Column(X, c)) : X \in {F \in FitFrames : HasCol(F, c)}}

\* C24 (as claimed): in the vector a fitted engineer returns for a serve-time
\* record, a cell that is still empty after derivation holds the median of
\* its feature at fit time: it is filled, and with that value.
C24_FilledWithFitTimeMedian ==
    (Served /\ Fitted) =>
        \A before \in {BeforeFill} :
            \A c \in Range(transformed.X.cols) :
                before.rows[1][c].nan
                    => /\ ~transformed.X.rows[1][c].nan
                       /\ transformed.X.rows[1][c] \in FitTimeMedians(c)

\* What holds of C24: the fill value is the median of the frame being
\* served, X.fillna(X.median()); the frame of a request has one row, whose
\* median in a column with an empty cell is NaN, so the vector returned is
\* the frame as it was before the fill, empty cells included.
C24_FilledWithMedianOfServedFrame ==
    Served =>
        \A before \in {BeforeFill} :
            /\ transformed.X = FillNa(before)
            /\ transformed.X = before

\* The case of C24: a fitted engineer that selected year_normalized serves a
\* request; (year - min) / (max - min) is 0 / 0 on the one-row frame and the
\* cell is returned empty.
C24_YearNormalizedStaysEmpty ==
    /\ Served
    /\ Fitted
    /\ "year_normalized" \in Range(transformed.X.cols)
    /\ transformed.X.rows[1]["year_normalized"].nan

\* A step that returned a frame computed with fit=False.
ServeStep ==
    /\ transformed' # NoFrame
    /\ transformed'.state \in {"served", "encoded"}
    /\ transformed = NoFrame

\* C19: every serve-time transform (prepare_features, or
\* encode_categorical_features, with fit=False), before or after any other,
\* leaves the FeatureEngineer as it was: the encoders' classes, the
\* scalers' parameters, feature_names and selected_features keep the values
\* they had, which after fit are those fit left.
C19_ServeLeavesEngineerUnchanged ==
    [][ServeStep =>
        /\ encoders' = encoders
        /\ scalers' = scalers
        /\ feature_names' = feature_names
        /\ selected_features' = selected_features]_vars

\* C19 witness: a fitted engineer has served a request whose crop and state
\* it has not learned; its encoders still hold the two classes of fit.
C19_Witness ==
    /\ Served
    /\ Fitted
    /\ Unseen("crop")
    /\ Unseen("state")
    /\ Len(encoders["crop"]) = 2
    /\ DOMAIN scalers # {}

----------------------------------------------------------------------------
(* Simple backend: CropYieldPredictor.load_model and predict                *)
(* (src/backend/ml_utils.py)                                                *)

\* Files load_model opens in one call, at most.
MaxFiles == 2

\* The models and metadata records the files on disk may hold.
BackendModels ==
    {[prediction |-> 3000, has_importances |-> TRUE, importance_sum |-> 1000],
     [prediction |-> 250, has_importances |-> FALSE, importance_sum |-> 0],
     [prediction |-> 16000, has_importances |-> FALSE, importance_sum |-> 0]}
BackendMetadata ==
    {[metrics |-> "with_r2", test_r2 |-> 18],
     [metrics |-> "with_r2", test_r2 |-> 9],
     [metrics |-> "not_a_dict", test_r2 |-> 0]}

\* What load_model finds at one existing candidate file.
\*   pkl_unreadable: pickle.load raises.
\*   pkl_dict: a dictionary; its 'model' entry may be missing (None).
\*   pkl_plain: any other pickled object, None included.
\*   json: a metadata file, next to which the .pkl may be absent, readable or
\*   unreadable.
\* engineer is what is found at the _feature_engineer.pkl next to a .pkl.
ModelFiles ==
    {[kind |-> "pkl_unreadable", model |-> NoModel,
      metadata |-> [metrics |-> "absent", test_r2 |-> 0],
      engineer |-> "absent", pkl |-> "absent"]}
    \cup [kind : {"pkl_dict"}, model : BackendModels \cup {NoModel},
          metadata : BackendMetadata,
          engineer : {"readable", "unreadable"}, pkl : {"absent"}]
    \cup [kind : {"pkl_plain"}, model : BackendModels \cup {NoModel},
          metadata : {[metrics |-> "absent", test_r2 |-> 0]},
          engineer : {"absent", "unreadable"}, pkl : {"absent"}]
    \cup [kind : {"json"}, model : BackendModels \cup {NoModel},
          metadata : BackendMetadata, engineer : {"absent"},
          pkl : {"readable"}]
    \cup [kind : {"json"}, model : {NoModel},
          metadata : BackendMetadata, engineer : {"absent"},
          pkl : {"absent", "unreadable"}]

\* One turn of the loop of load_model over an existing file: the predictor
\* after it and whether load_model returned True from it.  An exception
\* inside the turn is caught and the loop continues with what was assigned
\* before it.
LoadFile(p, file) ==
    CASE file.kind = "pkl_unreadable" -> [predictor |-> p, loaded |-> FALSE]
      [] file.kind \in {"pkl_dict", "pkl_plain"} ->
            LET assigned ==
                    [p EXCEPT !.model = file.model,
                              !.model_metadata =
                                  IF file.kind = "pkl_dict"
                                  THEN file.metadata ELSE @]
            IN  IF file.engineer = "unreadable"
                THEN [predictor |-> assigned, loaded |-> FALSE]
                ELSE [predictor |->
                        [assigned EXCEPT
                            !.feature_engineer =
                                IF file.engineer = "readable" THEN TRUE ELSE @,
                            !.is_fitted = TRUE],
                      loaded |-> TRUE]
      [] file.kind = "json" ->
            LET assigned == [p EXCEPT !.model_metadata = file.metadata]
            IN  IF file.pkl = "readable"
                THEN [predictor |->
                        [assigned EXCEPT !.model = file.model,
                                         !.is_fitted = TRUE],
                      loaded |-> TRUE]
                ELSE [predictor |-> assigned, loaded |-> FALSE]

\* load_model over the existing candidate files, in order: it returns at the
\* first file loaded and returns False when none was.
RECURSIVE LoadFiles(_, _)
LoadFiles(p, files) ==
    IF files = <<>> THEN [predictor |-> p, loaded |-> FALSE]
    ELSE LET turn == LoadFile(p, Head(files))
         IN  IF turn.loaded THEN turn
             ELSE LoadFiles(turn.predictor, Tail(files))

FileLists ==
    {<<>>} \cup UNION {[1..n -> ModelFiles] : n \in 1..MaxFiles}

LoadModel ==
    /\ result = NoResult
    /\ \E files \in FileLists :
          predictor' = LoadFiles(predictor, files).predictor
    /\ UNCHANGED <<apiVars, result, feVars, advVars, service>>

\* predict with a guard that tests the model only, not is_fitted.
PredictorPredictModelOnly ==
    /\ result = NoResult
    /\ \E jitter \in Jitters, fallback \in FallbackJitters :
          result' =
            IF predictor.model = NoModel
            THEN [path |-> "backend",
                  raises |-> "Model not loaded. Please load the model first.",
                  predictor |-> predictor]
            ELSE [path |-> "backend", raises |-> "none",
                  predictor |-> predictor,
                  returned |->
                      SimpleResult(predictor.model, predictor.model_metadata,
                                   jitter, fallback)]
    /\ UNCHANGED <<apiVars, feVars, advVars, svcVars>>

\* CropYieldPredictor.predict: the guard, then the prediction with the bound
\* model and the metadata of the predictor.
PredictorPredict ==
    /\ result = NoResult
    /\ \E jitter \in Jitters, fallback \in FallbackJitters :
          result' =
            IF ~predictor.is_fitted \/ predictor.model = NoModel
            THEN [path |-> "backend",
                  raises |-> "Model not loaded. Please load the model first.",
                  predictor |-> predictor]
            ELSE [path |-> "backend", raises |-> "none",
                  predictor |-> predictor,
                  returned |->
                      SimpleResult(predictor.model, predictor.model_metadata,
                                   jitter, fallback)]
    /\ UNCHANGED <<apiVars, feVars, advVars, svcVars>>

\* The value of `return float(yield_prediction), float(confidence),
\* prediction_info`: a tuple of three.
PredictReturnValue(returned) ==
    <<returned.yield_estimate, returned.confidence,
      [prediction_interval |-> returned.prediction_interval]>>

\* `yield_estimate, confidence = value`: ValueError unless the tuple has two
\* items.
UnpackTwo(value) ==
    IF Len(value) = 2
    THEN [raises |-> "none", yield_estimate |-> value[1],
          confidence |-> value[2]]
    ELSE IF Len(value) > 2
    THEN [raises |-> "ValueError",
          detail |-> "too many values to unpack (expected 2)"]
    ELSE [raises |-> "ValueError",
          detail |-> "not enough values to unpack"]

\* What CropYieldPredictor.predict does for the handler: raises ValueError
\* at its guard, or returns its tuple.
PredictorOutcome(p, jitter, fallback) ==
    IF ~p.is_fitted \/ p.model = NoModel
    THEN [raises |-> "ValueError",
          detail |-> "Model not loaded. Please load the model first."]
    ELSE [raises |-> "none",
          returned |-> SimpleResult(p.model, p.model_metadata, jitter,
                                    fallback)]

\* predict_yield of src/backend/main.py.  Inside the try: HTTPException(503)
\* when the model is not loaded, the call of predictor.predict, the
\* unpacking of its value into two names, the PredictionResponse with both
\* numbers rounded to 2 decimals (the estimate in centi-t/ha, the confidence
\* in hundredths).  `except ValueError` answers 400 with the message,
\* `except Exception` (HTTPException included) answers 500.
HandlePredict(p, jitter, fallback) ==
    IF ~p.is_fitted
    THEN [path |-> "handler", predictor |-> p, called |-> FALSE,
          status |-> 500,
          detail |-> "Internal server error during prediction"]
    ELSE
        LET outcome == PredictorOutcome(p, jitter, fallback)
        IN  IF outcome.raises # "none"
            THEN [path |-> "handler", predictor |-> p, called |-> TRUE,
                  predict |-> outcome, status |-> 400,
                  detail |-> outcome.detail]
            ELSE
                LET unpacked == UnpackTwo(PredictReturnValue(outcome.returned))
                IN  IF unpacked.raises # "none"
                    THEN [path |-> "handler", predictor |-> p,
                          called |-> TRUE, predict |-> outcome,
                          status |-> 400, detail |-> unpacked.detail]
                    ELSE [path |-> "handler", predictor |-> p,
                          called |-> TRUE, predict |-> outcome,
                          status |-> 200,
                          body |->
                            [yield_estimate |->
                                RoundHalfEven(unpacked.yield_estimate, 10),
                             confidence |->
                                RoundHalfEven(unpacked.confidence, 10)]]

BackendPredictYield ==
    /\ result = NoResult
    /\ \E jitter \in Jitters, fallback \in FallbackJitters :
          result' = HandlePredict(predictor, jitter, fallback)
    /\ UNCHANGED <<apiVars, feVars, advVars, svcVars>>

InitBackend ==
    /\ result = NoResult
    /\ InitEngineer
    /\ advisory = NoAdvisory
    /\ InitServices
    /\ InitApi

NextBackend ==
    \/ LoadModel
    \/ PredictorPredict
    \/ BackendPredictYield
    \/ ReturnResult

SpecBackend == InitBackend /\ [][NextBackend]_vars

PredictCompleted ==
    /\ result.path = "handler"
    /\ result.called
    /\ result.predict.raises = "none"

\* C28 (as claimed): whenever the model is loaded and
\* CropYieldPredictor.predict completes without raising, POST /predict of
\* the simple backend answers 200 with that estimate and that confidence,
\* both rounded to 2 decimals, never 400 or 500.
C28_CompletedPredictionReturned ==
    PredictCompleted =>
        /\ result.status = 200
        /\ result.body.yield_estimate
              = RoundHalfEven(result.predict.returned.yield_estimate, 10)
        /\ result.body.confidence
              = RoundHalfEven(result.predict.returned.confidence, 10)

\* What holds of C28: predict returns three values and the handler unpacks
\* two, so a completed prediction is answered 400 with the message of the
\* unpacking error, and no request at all is answered 200.
C28_CompletedPredictionAnswered400 ==
    /\ PredictCompleted =>
          /\ result.status = 400
          /\ result.detail = "too many values to unpack (expected 2)"
    /\ result.path = "handler" => result.status \in {400, 500}

\* The case of C28: a loaded model predicts 3.0 t/ha with a confidence in
\* the clamp, and the request is answered 400.
C28_LoadedModelCase ==
    /\ PredictCompleted
    /\ result.predictor.is_fitted
    /\ result.predict.returned.yield_estimate = 3000
    /\ result.predict.returned.confidence >= 500
    /\ result.status = 400

----------------------------------------------------------------------------
(* PredictionService: initialize and predict (src/src/api/predict.py), with *)
(* the validators of src/src/utils.py                                       *)

\* validate_coordinates(lat, lon), in whole degrees.
ValidateCoordinates(lat, lon) ==
    /\ -90 <= lat /\ lat <= 90
    /\ -180 <= lon /\ lon <= 180

\* validate_crop_input(crop) with the default valid_crops.
ValidCrops == {"rice", "wheat", "maize", "sugarcane", "cotton"}
ValidateCropInput(crop) == Lower(crop) \in ValidCrops

\* validate_year(year) with the defaults; current_year is
\* datetime.now().year.
ValidateYear(year, current_year) ==
    2000 <= year /\ year <= current_year + 1

\* What one of the two services answers to a request, and what becomes of
\* the answer:
\*   fetch_raises: fetch_*_data raises (an exception that is not a
\*     RequestException);
\*   fetch_empty: fetch_*_data caught a RequestException and returned {};
\*   no_properties: a response without 'properties', which process_*_data
\*     turns into {};
\*   process_raises: a response on which process_*_data raises;
\*   ok: a response processed into the map with the keys of data.
FailureKinds ==
    {"fetch_raises", "fetch_empty", "no_properties", "process_raises"}
Failures == {[kind |-> k, data |-> <<>>] : k \in FailureKinds}
WeatherOutcomes ==
    Failures \cup {[kind |-> "ok", data |-> d] :
                        d \in {WeatherOrder}}
SoilOutcomes ==
    Failures \cup {[kind |-> "ok", data |-> d] :
                        d \in {<<"soil_phh2o">>, SoilOrder}}

\* The statements inside one inner try of fetch_external_data: the fetch,
\* the test of the response, the processing.
FetchAndProcess(outcome) ==
    CASE outcome.kind \in {"fetch_raises", "process_raises"} ->
            [raised |-> TRUE, data |-> <<>>]
      [] outcome.kind \in {"fetch_empty", "no_properties"} ->
            [raised |-> FALSE, data |-> <<>>]
      [] outcome.kind = "ok" -> [raised |-> FALSE, data |-> outcome.data]

\* One inner try without its except clause.
Unguarded(attempt) == attempt

\* One inner try with its except clause: the map stays {} when the
\* statements raised.
Guarded(attempt) ==
    [raised |-> FALSE,
     data |-> IF attempt.raised THEN <<>> ELSE attempt.data]

\* fetch_external_data: the two inner tries inside the outer one, whose
\* except clause returns two empty maps.
FetchExternalData(weather_outcome, soil_outcome) ==
    LET weather == Guarded(FetchAndProcess(weather_outcome))
        soil == Guarded(FetchAndProcess(soil_outcome))
    IN  IF weather.raised \/ soil.raised
        THEN [raised |-> FALSE, weather |-> <<>>, soil |-> <<>>]
        ELSE [raised |-> FALSE, weather |-> weather.data,
              soil |-> soil.data]

\* The models PredictionService.load_model may bind.
PredictModels ==
    {[prediction |-> 3000, has_importances |-> TRUE, importance_sum |-> 1000],
     [prediction |-> 250, has_importances |-> FALSE, importance_sum |-> 0]}

\* Requests: (latitude, longitude) in whole degrees, the year, the crop.
Coordinates == {<<20, 86>>, <<91, 86>>, <<20, -181>>}
PredictYears == {1999, 2028}
CurrentYears == {2026, 2027}
PredictCrops == {"rice", "banana"}
PredictRequests ==
    [latitude : {c[1] : c \in Coordinates},
     longitude : {c[2] : c \in Coordinates},
     year : PredictYears, state : {"Punjab"}, district : {"Puri"},
     crop : PredictCrops, farmer_inputs : {NoFarmerInputs}]

\* PredictionService.initialize: load_model binds the model of the pickle or
\* raises (then nothing is loaded); load_feature_engineer binds the pickled
\* engineer or a new one.
Initialize ==
    /\ result = NoResult
    /\ service.model = NoModel
    /\ \E model \in PredictModels \cup {NoModel} :
          service' =
            IF model = NoModel THEN service
            ELSE [model |-> model, feature_engineer |-> TRUE]
    /\ UNCHANGED <<apiVars, result, feVars, advVars, predictor>>

\* PredictionService.predict: the record of the call, with the engineer it
\* leaves behind.
PredictionServicePredict(svc, engineer, request, current_year, weather_outcome, soil_outcome) ==
    LET call ==
            [path |-> "predict", request |-> request,
             current_year |-> current_year]
        rejected(message) ==
            call @@ [raises |-> message, fetched |-> FALSE,
                     engineer |-> engineer]
    IN  IF ~ValidateCoordinates(request.latitude, request.longitude)
        THEN rejected("Invalid coordinates")
        ELSE IF ~ValidateYear(request.year, current_year)
        THEN rejected("Invalid year")
        ELSE
            Then(FetchExternalData(weather_outcome, soil_outcome),
                 LAMBDA fetched :
            Then([weather |-> fetched.weather, soil |-> fetched.soil],
                 LAMBDA external_data :
                LET reached ==
                        call @@ [fetched |-> TRUE,
                                 fetch_raised |-> fetched.raised,
                                 weather_outcome |-> weather_outcome,
                                 soil_outcome |-> soil_outcome,
                                 external_data |-> external_data]
                IN  IF ~svc.feature_engineer \/ svc.model = NoModel
                    THEN reached @@ [raises |-> "AttributeError",
                                     engineer |-> engineer]
                    ELSE
                        Then(ServeFeatures(engineer, request, external_data),
                             LAMBDA out :
                            LET after ==
                                    [scalers |-> out.scalers,
                                     encoders |-> out.encoders,
                                     feature_names |-> out.feature_names,
                                     selected_features |->
                                        out.selected_features]
                            IN  IF out.raises # "none"
                                THEN reached @@ [raises |-> out.raises,
                                                 engineer |-> after]
                                ELSE reached @@
                                    [raises |-> "none",
                                     engineer |-> after,
                                     input_df |->
                                        AddDefaultFeatures(
                                            CreateInputDataframe(
                                                request, external_data)),
                                     returned |->
                                        FullResult(svc.model,
                                                   external_data)])))

Predict ==
    /\ result = NoResult
    /\ transformed = NoFrame
    /\ \E request \in PredictRequests, current_year \in CurrentYears,
          weather_outcome \in WeatherOutcomes, soil_outcome \in SoilOutcomes :
       \E out \in {PredictionServicePredict(service, Engineer, request,
                        current_year, weather_outcome, soil_outcome)} :
          /\ result' = [k \in DOMAIN out \ {"engineer"} |-> out[k]]
          /\ scalers' = out.engineer.scalers
          /\ encoders' = out.engineer.encoders
          /\ feature_names' = out.engineer.feature_names
          /\ selected_features' = out.engineer.selected_features
    /\ UNCHANGED <<apiVars, transformed, advVars, svcVars>>

InitPredict ==
    /\ result = NoResult
    /\ InitEngineer
    /\ advisory = NoAdvisory
    /\ InitServices
    /\ InitApi

\* Fit stands for the training run whose pickle load_feature_engineer loads.
NextPredict ==
    \/ Fit
    \/ ReturnFrame
    \/ Initialize
    \/ Predict
    \/ ReturnResult

SpecPredict == InitPredict /\ [][NextPredict]_vars

\* The map fetch_external_data is to return for a family: what the service
\* answered, or {} when nothing usable came back.
Recovered(outcome) == IF outcome.kind = "ok" THEN outcome.data ELSE <<>>

DefaultsUsed(df, external_map, order, defaults) ==
    \A c \in Range(order) :
        c \notin Range(external_map) => df.rows[1][c] = defaults[c]

\* The data-quality score of a request for which both families came back
\* with every field.
FullDataQuality ==
    AssessDataQuality([weather |-> WeatherOrder, soil |-> SoilOrder])

InvalidInput(request, current_year) ==
    \/ ~ValidateCoordinates(request.latitude, request.longitude)
    \/ ~ValidateYear(request.year, current_year)
    \/ ~ValidateCropInput(request.crop)

Rejected ==
    /\ result.raises # "none"
    /\ ~result.fetched
    /\ "returned" \notin DOMAIN result

\* C17 (as claimed): a request with an out-of-range coordinate, an
\* out-of-range year or an unrecognised crop identifier is rejected by
\* PredictionService.predict with an error before any external fetch,
\* feature transform or model call, and no prediction result is produced.
C17_InvalidInputRejected ==
    (result.path = "predict"
        /\ InvalidInput(result.request, result.current_year))
        => Rejected

\* What holds of C17: the coordinates and the year are checked before the
\* fetch; the crop identifier is not a reason to reject.
C17_CoordinatesAndYearRejected ==
    result.path = "predict" =>
        (Rejected <=>
            (\/ ~ValidateCoordinates(result.request.latitude,
                                     result.request.longitude)
             \/ ~ValidateYear(result.request.year, result.current_year)))

\* The case of C17: a request for an unrecognised crop, with valid
\* coordinates and year, answered with a prediction.
C17_UnrecognisedCropServed ==
    /\ result.path = "predict"
    /\ ~ValidateCropInput(result.request.crop)
    /\ result.fetched
    /\ result.raises = "none"
    /\ "returned" \in DOMAIN result

----------------------------------------------------------------------------
(* The API: src/src/api/main.py.  A /predict handler is a coroutine; it     *)
(* runs without interruption between two awaits, so its steps are: the     *)
(* coordinate check, each awaited call (prediction_service.predict,        *)
(* generate_advisory, translate_advisory), and the tail from the           *)
(* PredictionResponse to the return.  The handlers of different requests   *)
(* and the background tasks interleave at these steps.                     *)

\* What the handler reads of a request: whether the coordinates are in range
\* and the language ("none": not given).
ApiRequests ==
    [coordinates : {"valid", "invalid"}, language : {"en", "or", "none"}]

\* What prediction_service.predict gives the handler: a result, or an
\* exception.
PredictionOutcomes ==
    {[kind |-> "raises"],
     [kind |-> "result", predicted_yield |-> 300, confidence |-> 900],
     [kind |-> "result", predicted_yield |-> 25, confidence |-> 550]}

\* generate_advisory: the bundle, in English, or an exception.
AdvisoryOutcomes ==
    {[kind |-> "raises"], [kind |-> "advisory", language |-> "en"]}

Handler(id) == api.handlers[id]

SetHandler(id, h) == [api EXCEPT !.handlers[id] = h]

\* except Exception: raise HTTPException(status_code=500, detail=str(e))
Fail(h, step) ==
    [h EXCEPT !.pc = "done", !.status = 500,
              !.log = IF step = "" THEN h.log ELSE Append(h.log, step)]

\* A request arrives and the handler checks the coordinates: the
\* HTTPException(400) it raises for coordinates out of range is raised inside
\* the try and caught by `except Exception`.
ApiReceive ==
    /\ \E id \in 1..MaxRequests, request \in ApiRequests :
          /\ Handler(id).pc = "new"
          /\ \A before \in 1..(id - 1) : Handler(before).pc # "new"
          /\ api' = SetHandler(id,
                IF request.coordinates = "invalid"
                THEN Fail([Handler(id) EXCEPT !.request = request], "")
                ELSE [Handler(id) EXCEPT !.request = request,
                                         !.pc = "predict"])
    /\ UNCHANGED <<confVars, feVars, advVars, svcVars>>

\* prediction_result = await prediction_service.predict(request)
ApiPredict ==
    /\ \E id \in 1..MaxRequests, outcome \in PredictionOutcomes :
          /\ Handler(id).pc = "predict"
          /\ api' = SetHandler(id,
                IF outcome.kind = "raises"
                THEN Fail(Handler(id), "predict")
                ELSE [Handler(id) EXCEPT
                        !.prediction_result = outcome,
                        !.log = Append(@, "predict"),
                        !.pc = "advise"])
    /\ UNCHANGED <<confVars, feVars, advVars, svcVars>>

\* request.language and request.language != 'en'
NeedsTranslation(request) == request.language \notin {"en", "none"}

\* advisory_result = await advisory_engine.generate_advisory(...)
ApiAdvise ==
    /\ \E id \in 1..MaxRequests, outcome \in AdvisoryOutcomes :
          /\ Handler(id).pc = "advise"
          /\ api' = SetHandler(id,
                IF outcome.kind = "raises"
                THEN Fail(Handler(id), "advise")
                ELSE [Handler(id) EXCEPT
                        !.advisory_result = outcome,
                        !.log = Append(@, "advise"),
                        !.pc = IF NeedsTranslation(Handler(id).request)
                               THEN "translate" ELSE "respond"])
    /\ UNCHANGED <<confVars, feVars, advVars, svcVars>>

\* advisory_result = await translation_service.translate_advisory(...):
\* the translated bundle, or the original when the translation failed
\* (translate_advisory catches every exception).
ApiTranslate ==
    /\ \E id \in 1..MaxRequests, translated \in BOOLEAN :
          /\ Handler(id).pc = "translate"
          /\ api' = SetHandler(id,
                [Handler(id) EXCEPT
                    !.advisory_result =
                        IF translated
                        THEN [@ EXCEPT
                                !.language = Handler(id).request.language]
                        ELSE @,
                    !.log = Append(@, "translate"),
                    !.pc = "respond"])
    /\ UNCHANGED <<confVars, feVars, advVars, svcVars>>

\* PredictionResponse(...) of the handler.
AssembleResponse(h) ==
    [predicted_yield_t_ha |-> h.prediction_result.predicted_yield,
     confidence_score |-> h.prediction_result.confidence,
     advisory |-> h.advisory_result]

\* The tail of the handler with background_tasks.add_task placed before the
\* PredictionResponse is built.
ApiRespondScheduleFirst ==
    /\ \E id \in 1..MaxRequests, valid \in BOOLEAN :
          /\ Handler(id).pc = "respond"
          /\ LET response == AssembleResponse(Handler(id))
                 task == [id |-> id, response_data |-> response]
             IN  api' =
                    IF valid
                    THEN [SetHandler(id,
                            [Handler(id) EXCEPT
                                !.response = response,
                                !.log = @ \o <<"schedule", "assemble">>,
                                !.status = 200,
                                !.pc = "done"])
                          EXCEPT !.tasks = @ \cup {task}]
                    ELSE [SetHandler(id,
                            Fail([Handler(id) EXCEPT
                                    !.log = Append(@, "schedule")],
                                 "assemble"))
                          EXCEPT !.tasks = @ \cup {task}]
    /\ UNCHANGED <<confVars, feVars, advVars, svcVars>>

\* The tail of the handler: the PredictionResponse is built (its validation
\* may raise), store_prediction is added to the background tasks with the
\* response's dict, and the response is returned; the task runs once the
\* response is sent.
ApiRespond ==
    /\ \E id \in 1..MaxRequests, valid \in BOOLEAN :
          /\ Handler(id).pc = "respond"
          /\ LET response == AssembleResponse(Handler(id))
                 task == [id |-> id, response_data |-> response]
             IN  api' =
                    IF valid
                    THEN [SetHandler(id,
                            [Handler(id) EXCEPT
                                !.response = response,
                                !.log = @ \o <<"assemble", "schedule">>,
                                !.status = 200,
                                !.pc = "done"])
                          EXCEPT !.tasks = @ \cup {task}]
                    ELSE SetHandler(id, Fail(Handler(id), "assemble"))
    /\ UNCHANGED <<confVars, feVars, advVars, svcVars>>

\* store_prediction, the background task: db_manager.store_prediction
\* inserts the row, or raises and the exception is logged.
ApiStorePrediction ==
    /\ \E task \in api.tasks, stored \in BOOLEAN :
          api' = [api EXCEPT
                    !.tasks = @ \ {task},
                    !.predictions = IF stored THEN @ \cup {task} ELSE @]
    /\ UNCHANGED <<confVars, feVars, advVars, svcVars>>

InitApiSpec ==
    /\ result = NoResult
    /\ InitEngineer
    /\ advisory = NoAdvisory
    /\ InitServices
    /\ InitApi

NextApi ==
    \/ ApiReceive
    \/ ApiPredict
    \/ ApiAdvise
    \/ ApiTranslate
    \/ ApiRespond
    \/ ApiStorePrediction

SpecApi == InitApiSpec /\ [][NextApi]_vars

----------------------------------------------------------------------------
(* The API: properties *)

\* The steps of a request that goes through, in the order of the handler.
StepsOf(request) ==
    <<"predict", "advise">>
        \o (IF NeedsTranslation(request) THEN <<"translate">> ELSE <<>>)
        \o <<"assemble", "schedule">>

IsPrefix(a, b) == Len(a) <= Len(b) /\ a = SubSeq(b, 1, Len(a))

\* The steps taken for each request are an initial part of prediction,
\* advisory, translation (when asked for), response assembly, scheduling,
\* each at most once; a store task exists, pending or done, only for a
\* request whose response was assembled, with that response, after the
\* assembly; none exists for a request that failed.
Orchestrated ==
    /\ \A id \in 1..MaxRequests :
          /\ Handler(id).pc # "new" =>
                IsPrefix(Handler(id).log, StepsOf(Handler(id).request))
          /\ Handler(id).status = 500 =>
                \A task \in api.tasks \cup api.predictions : task.id # id
    /\ \A task \in api.tasks \cup api.predictions :
          /\ Handler(task.id).status = 200
          /\ Handler(task.id).response = task.response_data
          /\ Handler(task.id).log = StepsOf(Handler(task.id).request)

\* A step leaves every answer already given as it is.
AnswersKept ==
    \A id \in 1..MaxRequests :
        Handler(id).status # 0 =>
            /\ api'.handlers[id].status = Handler(id).status
            /\ api'.handlers[id].response = Handler(id).response

\* C27: in the /predict handler the steps occur in the order prediction,
\* advisory generation, optional translation, response assembly, scheduling
\* of persistence; persistence is scheduled only after the response has been
\* assembled; a request whose prediction (or any other step) failed is never
\* persisted; each step runs at most once per request; and no later step,
\* a failing background store included, changes or withdraws a response
\* already returned.
C27_PredictOrchestration == []Orchestrated /\ [][AnswersKept]_vars

\* C27 witness: a request in Odia went through its five steps and was
\* answered 200, its store task ran and failed, leaving no row; another
\* request failed at the prediction and was answered 500.
C27_Witness ==
    /\ Handler(1).status = 200
    /\ Handler(1).log
          = <<"predict", "advise", "translate", "assemble", "schedule">>
    /\ Handler(1).response # Nothing
    /\ api.tasks = {}
    /\ api.predictions = {}
    /\ Handler(2).status = 500
    /\ Handler(2).log = <<"predict">>

----------------------------------------------------------------------------
(* The API: POST /predict/batch *)

\* The largest batch accepted.
BatchLimit == 100

\* The sizes of the batches sent, and the positions at which a batch may
\* hold a request that fails (its prediction, advisory or response raises).
BatchSizes == {0, 1, 2, 3, 4, 5, 99, 100, 101, 150}
FailingPositions(n) == SUBSET ({1, 2, 3, n} \cap 1..n)

\* A batch: request i is answered by a prediction of its own (1.00 + i/100
\* t/ha, in centi-t/ha) unless it fails.
Batch(n, failing) ==
    [i \in 1..n |-> [predicted_yield |-> 100 + i, fails |-> i \in failing]]

\* One pass of the loop body: the entry appended to results.
BatchEntry(request) ==
    IF request.fails
    THEN [status |-> "error", error |-> "str(e)", prediction |-> Nothing]
    ELSE [status |-> "success", error |-> "",
          prediction |-> [predicted_yield_t_ha |-> request.predicted_yield]]

Count(results, status) ==
    Cardinality({i \in 1..Len(results) : results[i].status = status})

\* str(e) of the HTTPException raised for a batch too large: the status and
\* the detail, or nothing, with the version of the framework.
TooLargeDetails == {"400: Batch size too large (max 100)", ""}

\* batch_predict.  The HTTPException(400) for a batch too large is raised
\* inside the outer try, caught by its `except Exception` and raised again
\* as HTTPException(500, detail=str(e)).  Otherwise every request gets its
\* entry, a success one also a store_prediction task on this response's
\* background tasks.
BatchPredictResponse(requests, detail) ==
    IF Len(requests) > BatchLimit
    THEN [status |-> 500, detail |-> detail, requests |-> requests,
          total_requests |-> 0, successful |-> 0, failed |-> 0,
          results |-> <<>>, background_tasks |-> <<>>]
    ELSE LET results == [i \in 1..Len(requests) |-> BatchEntry(requests[i])]
         IN  [status |-> 200, detail |-> "", requests |-> requests,
              total_requests |-> Len(requests),
              successful |-> Count(results, "success"),
              failed |-> Count(results, "error"),
              results |-> results,
              background_tasks |->
                SelectSeq([i \in 1..Len(requests) |-> i],
                          LAMBDA i : ~requests[i].fails)]

BatchPredict ==
    /\ api.batch = Nothing
    /\ \E n \in BatchSizes :
       \E failing \in FailingPositions(n), detail \in TooLargeDetails :
          api' = [api EXCEPT
                    !.batch = BatchPredictResponse(Batch(n, failing), detail)]
    /\ UNCHANGED <<confVars, feVars, advVars, svcVars>>

\* The caller takes the batch response.
BatchReturn ==
    /\ api.batch # Nothing
    /\ api' = [api EXCEPT !.batch = Nothing]
    /\ UNCHANGED <<confVars, feVars, advVars, svcVars>>

NextBatch ==
    \/ BatchPredict
    \/ BatchReturn

SpecBatch == InitApiSpec /\ [][NextBatch]_vars

\* A batch within the limit is answered 200 with one entry per request, in
\* request order: 'error' for a failing request, 'success' with the
\* request's own prediction otherwise, whatever failed before it; and
\* successful + failed = total_requests.
BatchProcessed ==
    LET batch == api.batch
    IN  /\ batch.status = 200
        /\ batch.total_requests = Len(batch.requests)
        /\ Len(batch.results) = Len(batch.requests)
        /\ \A i \in 1..Len(batch.requests) :
              IF batch.requests[i].fails
              THEN batch.results[i].status = "error"
              ELSE /\ batch.results[i].status = "success"
                   /\ batch.results[i].prediction.predicted_yield_t_ha
                         = batch.requests[i].predicted_yield
        /\ batch.successful + batch.failed = batch.total_requests

\* C29 (as claimed): the batch endpoint answers a batch of more than 100
\* requests with HTTP status 400 without processing any request, and a
\* batch of at most 100 as BatchProcessed says.
C29_BatchRejectedWith400 ==
    api.batch # Nothing =>
        IF Len(api.batch.requests) > 100
        THEN /\ api.batch.status = 400
             /\ api.batch.results = <<>>
             /\ api.batch.background_tasks = <<>>
        ELSE BatchProcessed

\* What holds of C29: a batch of more than 100 requests is answered with
\* HTTP status 500, no request processed; the rest is as claimed.
C29_BatchRejectedWith500 ==
    api.batch # Nothing =>
        IF Len(api.batch.requests) > 100
        THEN /\ api.batch.status = 500
             /\ api.batch.results = <<>>
             /\ api.batch.background_tasks = <<>>
        ELSE BatchProcessed

\* The case of C29: a batch of 101 requests, answered 500.
C29_OversizedBatchCase ==
    /\ api.batch # Nothing
    /\ Len(api.batch.requests) = 101
    /\ api.batch.status = 500
    /\ api.batch.results = <<>>

====
